---- MODULE Spec2Model ----
(***************************************************************************)
(* The thumbnail generation and caching engine of Cura                     *)
(* (src-tauri/src/thumbnail.rs): generate_thumbnails and its helpers, run  *)
(* by up to two callers over a shared cache directory.  The file system is *)
(* part of the state: source files (bytes, modification time, extension),  *)
(* the cache directory and the cache files, each cache file holding the    *)
(* chunks written to it so far.                                            *)
(***************************************************************************)
EXTENDS Integers, Sequences, FiniteSets, TLC

VARIABLES now, src, cacheDir, cache, call, ret, done, calls, events,
          pipe, video, stats, track, sync, settings, migrations, auth, lru

vars ==
    <<now, src, cacheDir, cache, call, ret, done, calls, events, pipe, video, stats, track,
      sync,
      settings,
      migrations,
      auth,
      lru>>

\* the state of generate_thumbnails and of the file system it works on
thumbVars == <<now, src, cacheDir, cache, call, ret, done, calls, events>>

\* the state of the other parts of the program
sideVars == <<pipe, video, stats, track, sync, settings, migrations, auth, lru>>

(* ------------------------------ bounds --------------------------------- *)

\* calls to generate_thumbnails started in one behaviour
MaxCalls == 2
\* events of the environment in one behaviour: a tick of the clock, a
\* modification of a source file, an I/O operation that fails
MaxEvents == 1
\* the sides of the small source images, 1..MaxSide pixels
MaxSide == 4
\* the largest value of the EXIF orientation field, 0..MaxTag
MaxTag == 9
\* record calls on the codec performance totals in one behaviour
MaxRecords == 3
\* reset calls on the codec performance totals in one behaviour
MaxResets == 1
\* the longest list of image ids passed to sync_to_drive
MaxIds == 2
\* the save_settings calls made
MaxSaves == 2
\* the run_migrations calls made
MaxRuns == 3
\* the start_auth_flow calls and the handle_callback calls made
MaxFlows == 2
MaxCallbacks == 2
\* the largest capacity of an LRUCache and the get and put calls made on it
MaxCapacity == 2
MaxOps == 4

(* ------------------------- program constants --------------------------- *)

THUMBNAIL_SMALL_WIDTH == 150
THUMBNAIL_MEDIUM_WIDTH == 600
\* upload_file_with_retry
max_attempts == 3
\* the schema version of migrations.rs
CURRENT_VERSION == 2

(* ------------------------------ the world ------------------------------ *)

\* the clock starts at 1 and ends at LastTime at the latest; a source's
\* mtime lies in the past (0) or ahead of the clock (LastTime)
LastTime == 1 + MaxEvents

\* the two concurrent callers (worker threads of a batch)
Procs == {1, 2}

\* paths a caller may pass: two regular files, a directory, a missing path
FilePaths == {"a", "b"}
Paths == FilePaths \cup {"dir", "none"}

\* file contents: two decodable images and one that no decoder accepts
Bytes == {"img1", "img2", "junk"}

\* extensions, as the sequences of characters to_lowercase works on
ExtJpg == <<"j", "p", "g">>
ExtPNG == <<"P", "N", "G">>
ExtHeic == <<"h", "e", "i", "c">>
ExtHEIC == <<"H", "E", "I", "C">>
ExtRaw == <<"r", "a", "w">>
ExtCr2 == <<"C", "r", "2">>
ExtNef == <<"n", "e", "f">>
ExtNEF == <<"N", "E", "F">>
Exts == {ExtJpg, ExtPNG, ExtHeic, ExtHEIC, ExtRaw, ExtCr2, ExtNef, ExtNEF}

\* the chunks the buffered writer hands to the file, in order
Chunks == {1, 2}
LastChunk == Cardinality(Chunks)

Sizes == {"small", "medium"}

(* --------------------------- pure functions ---------------------------- *)

\* Path::exists / Path::is_file on the caller's path
Kind(path) ==
    IF path \in FilePaths THEN "file" ELSE IF path = "dir" THEN "dir" ELSE "none"

\* char::to_lowercase on the characters an extension is made of
LowerChar(c) ==
    CASE c = "P" -> "p" [] c = "N" -> "n" [] c = "G" -> "g" [] c = "H" -> "h"
      [] c = "E" -> "e" [] c = "I" -> "i" [] c = "C" -> "c" [] c = "F" -> "f"
      [] OTHER -> c

\* str::to_lowercase
ToLower(s) == [i \in DOMAIN s |-> LowerChar(s[i])]

\* a checksum over the first block of the file only: img1 and img2, which
\* share their header, collide
Sha256HexOfHeader(bytes) ==
    CASE bytes = "img1" -> "5e1f" [] bytes = "img2" -> "5e1f" [] bytes = "junk" -> "9b3d"

\* Sha256 of the bytes, formatted {:x}: equal for equal bytes, and (collisions
\* being treated as impossible) different for different bytes
Sha256Hex(bytes) ==
    CASE bytes = "img1" -> "5e1f" [] bytes = "img2" -> "c07a" [] bytes = "junk" -> "9b3d"

Digests == {Sha256Hex(b) : b \in Bytes}

\* file names that leave the checksum out and use that of img1 for all
FileNameFixed(checksum, size) ==
    <<"5e1f", IF size = "small" THEN "_small.jpg" ELSE "_medium.jpg">>

\* format!("{}_small.jpg", checksum), format!("{}_medium.jpg", checksum)
FileName(checksum, size) ==
    <<checksum, IF size = "small" THEN "_small.jpg" ELSE "_medium.jpg">>

\* cache_dir.join(name)
Join(dir, name) == <<dir>> \o name

CacheDirName == "cache"

Names == {FileName(d, z) : d \in Digests, z \in Sizes}

\* the pixels found at the four corners of an image as decoded: top left,
\* top right, bottom left, bottom right
Upright == <<"tl", "tr", "bl", "br">>

\* the decoder's view of the bytes: raw pixel dimensions and the pixels at
\* the corners, or no image
NoImage == [ok |-> FALSE, id |-> "", w |-> 0, h |-> 0, at |-> Upright]

DecodeBytes(bytes) ==
    CASE bytes = "img1" -> [ok |-> TRUE, id |-> "img1", w |-> 2000, h |-> 1000, at |-> Upright]
      [] bytes = "img2" -> [ok |-> TRUE, id |-> "img2", w |-> 1000, h |-> 800, at |-> Upright]
      [] OTHER -> NoImage

\* the EXIF orientation tag of the bytes; 0 stands for no readable tag
ExifOrientation(bytes) ==
    CASE bytes = "img1" -> 0 [] bytes = "img2" -> 6 [] OTHER -> 0

\* DynamicImage::fliph, flipv, rotate180, rotate90 and rotate270 (clockwise)
FlipH(img) == [img EXCEPT !.at = <<img.at[2], img.at[1], img.at[4], img.at[3]>>]
FlipV(img) == [img EXCEPT !.at = <<img.at[3], img.at[4], img.at[1], img.at[2]>>]
Rotate180(img) == [img EXCEPT !.at = <<img.at[4], img.at[3], img.at[2], img.at[1]>>]
Rotate90(img) ==
    [img EXCEPT !.w = img.h, !.h = img.w,
                !.at = <<img.at[3], img.at[1], img.at[4], img.at[2]>>]
Rotate270(img) ==
    [img EXCEPT !.w = img.h, !.h = img.w,
                !.at = <<img.at[2], img.at[4], img.at[1], img.at[3]>>]

\* the match of apply_orientation with the mirrored cases 5 and 7 left to
\* the default arm
ApplyOrientationRotationsOnly(img, orientation) ==
    CASE orientation = 2 -> FlipH(img)
      [] orientation = 3 -> Rotate180(img)
      [] orientation = 4 -> FlipV(img)
      [] orientation = 6 -> Rotate90(img)
      [] orientation = 8 -> Rotate270(img)
      [] OTHER -> img

\* apply_orientation's match on the orientation value (0 stands for a file
\* without a readable tag, which the code returns as it is)
ApplyOrientation(img, orientation) ==
    CASE orientation = 1 -> img
      [] orientation = 2 -> FlipH(img)
      [] orientation = 3 -> Rotate180(img)
      [] orientation = 4 -> FlipV(img)
      [] orientation = 5 -> FlipH(Rotate90(img))
      [] orientation = 6 -> Rotate90(img)
      [] orientation = 7 -> FlipH(Rotate270(img))
      [] orientation = 8 -> Rotate270(img)
      [] OTHER -> img

\* load_image's dispatch on the extension as spelled, to_lowercase left out
LoadKindCaseSensitive(ext) ==
    IF ext = ExtHeic THEN "heic"
    ELSE IF ext \in {ExtRaw, <<"c", "r", "2">>, ExtNef} THEN "raw"
    ELSE "standard"

\* load_image's dispatch on the lower-cased extension
LoadKind(ext) ==
    LET e == ToLower(ext) IN
    IF e = ExtHeic THEN "heic"
    ELSE IF e \in {ExtRaw, ToLower(ExtCr2), ExtNef} THEN "raw"
    ELSE "standard"

\* the target height with the ratio upside down: width * target / height
TargetHeightInverted(img, target_width) ==
    (2 * img.w * target_width + img.h) \div (2 * img.h)

\* (height * (target_width / width)).round(): the exact quotient, rounded
\* half away from zero
TargetHeight(img, target_width) ==
    (2 * img.h * target_width + img.w) \div (2 * img.w)

\* the heights the f64 arithmetic can give: target_width / width is rounded
\* before it is multiplied, so a product that is exactly k + 1/2 may come
\* out just below it and round()s down (28 x 21 at width 150 gives 112)
TargetHeights(img, target_width) ==
    LET up == TargetHeight(img, target_width)
    IN  IF (2 * img.h * target_width) % (2 * img.w) = img.w /\ up > 0
        THEN {up - 1, up}
        ELSE {up}

Width(size) ==
    IF size = "small" THEN THUMBNAIL_SMALL_WIDTH ELSE THUMBNAIL_MEDIUM_WIDTH

\* the JPEG that generate_thumbnail_size encodes: resize_exact to the target
Thumbnail(img, size) ==
    [id |-> img.id, w |-> Width(size), h |-> TargetHeight(img, Width(size))]

\* the chunks of the encoded JPEG, as the writer sends them
JpegData(thumb) == {<<k, thumb>> : k \in Chunks}

NoFile == [exists |-> FALSE, data |-> {}, mtime |-> 0]

\* should_regenerate_thumbnails with >= for >: a cache file as old as the
\* source counts as stale
ShouldRegenerateNotOlder(small, medium, smallRead, mediumRead, source_mtime) ==
    IF ~small.exists \/ ~medium.exists THEN TRUE
    ELSE IF smallRead /\ source_mtime >= small.mtime THEN TRUE
    ELSE IF mediumRead /\ source_mtime >= medium.mtime THEN TRUE
    ELSE FALSE

\* should_regenerate_thumbnails; smallRead / mediumRead say whether
\* fs::metadata(..).modified() of the file succeeds
ShouldRegenerate(small, medium, smallRead, mediumRead, source_mtime) ==
    IF ~small.exists \/ ~medium.exists THEN TRUE
    ELSE IF smallRead /\ source_mtime > small.mtime THEN TRUE
    ELSE IF mediumRead /\ source_mtime > medium.mtime THEN TRUE
    ELSE FALSE

(* -------------------------------- state -------------------------------- *)

\* what is remembered of the last successful call on a source that has not
\* changed since: the paths it returned, and whether neither cache file was
\* older than the source when it returned
NoPrev == [ok |-> FALSE, small |-> << >>, medium |-> << >>, current |-> FALSE]

\* a caller's position in generate_thumbnails and its locals; fast, wrote,
\* fault, overlap, fresh and prev record what the call has done and met
IdleCall ==
    [pc |-> "idle", path |-> "none", mtime |-> 0, ck |-> "", bytes |-> "",
     img |-> NoImage, size |-> "small", chunk |-> 0,
     status |-> "none", err |-> "", small |-> << >>, medium |-> << >>,
     fast |-> FALSE, wrote |-> FALSE, fault |-> FALSE,
     overlap |-> FALSE, fresh |-> FALSE, prev |-> NoPrev]

Busy(p) == call[p].pc # "idle"

SmallName(c) == FileName(c.ck, "small")
MediumName(c) == FileName(c.ck, "medium")

\* the JPEG a complete cache file of this size holds for these bytes
Expected(bytes, size) ==
    JpegData(Thumbnail(ApplyOrientation(DecodeBytes(bytes), ExifOrientation(bytes)), size))

(* ---------------- decoded image to thumbnails, any image ----------------- *)

\* the sides of the decoded images: tiny ones, a pair whose height at width
\* 150 falls on a half (28 x 21), and the sizes of the tests
Sides == (1..MaxSide) \cup {21, 28, 800, 1000, 2000}

\* what apply_orientation finds in the file: it cannot be opened, it holds
\* no EXIF container, the container has no orientation field of type Short
\* with a value, or the field's first value
ExifReads ==
    {[read |-> r, v |-> 0] : r \in {"nofile", "noexif", "nofield"}}
        \cup {[read |-> "short", v |-> v] : v \in 0..MaxTag}

\* apply_orientation: the early returns, unwrap_or(1), the match; Ok always
OrientImage(img, tag) ==
    IF tag.read \in {"nofile", "noexif"}
    THEN [ok |-> TRUE, img |-> img]
    ELSE [ok |-> TRUE,
          img |-> ApplyOrientation(img, IF tag.read = "nofield" THEN 1 ELSE tag.v)]

NoThumb == [id |-> "", w |-> 0, h |-> 0]

\* lines 69-84 of generate_thumbnails on one decoded image: raw is the image
\* load_image returned, img the image in hand, small and medium the
\* thumbnails written
PipeOff ==
    [pc |-> "off", tag |-> [read |-> "nofile", v |-> 0], raw |-> NoImage, img |-> NoImage,
     small |-> NoThumb, medium |-> NoThumb]

PipeIdle == pipe = PipeOff

(* ----------------------- codec performance totals ----------------------- *)

\* codec names the prober reports; "unknown" when it could not tell
Codecs == {"h264", "vp9", "unknown"}

\* milliseconds one frame extraction may take
Elapsed == {20, 40}

\* CodecStat: the running totals of one codec; present says whether the
\* tracker holds an entry for it
NoStat == [present |-> FALSE, sample_count |-> 0, cumulative_time_ms |-> 0, failure_count |-> 0]

\* record that counts a sample only when the extraction succeeded
RecordIntoSuccessesCounted(stat, elapsed_ms, success) ==
    [present |-> TRUE,
     sample_count |-> stat.sample_count + (IF success THEN 1 ELSE 0),
     cumulative_time_ms |-> stat.cumulative_time_ms + elapsed_ms,
     failure_count |-> stat.failure_count + (IF success THEN 0 ELSE 1)]

\* record(codec_name, elapsed_ms, success) on the codec's totals
RecordInto(stat, elapsed_ms, success) ==
    [present |-> TRUE,
     sample_count |-> stat.sample_count + 1,
     cumulative_time_ms |-> stat.cumulative_time_ms + elapsed_ms,
     failure_count |-> stat.failure_count + (IF success THEN 0 ELSE 1)]

StatsIdle == stats = [c \in Codecs |-> NoStat]

\* reset() that zeroes the totals of the codecs and keeps their entries
ClearedTotalsOnly(totals) ==
    [c \in Codecs |-> [NoStat EXCEPT !.present = totals[c].present]]

\* reset(): all per-codec state is cleared
Cleared(totals) == [c \in Codecs |-> NoStat]

\* one entry of snapshot(): avg_time_ms and success_rate are quotients,
\* kept as <<numerator, denominator>>
Metrics(codec, stat) ==
    [codec_name |-> codec,
     sample_count |-> stat.sample_count,
     avg_time_ms |-> <<stat.cumulative_time_ms, stat.sample_count>>,
     success_rate |-> <<stat.sample_count - stat.failure_count, stat.sample_count>>]

\* snapshot(): one entry per codec the tracker holds
SnapshotOf(totals) == {Metrics(c, totals[c]) : c \in {d \in Codecs : totals[d].present}}

\* the threads that use the tracker, and the codecs they record
Threads == {1, 2}
TrackCodecs == {"h264", "vp9"}

\* a thread outside any operation on the tracker
IdleThread == [pc |-> "idle", codec |-> "h264", ms |-> 0, ok |-> TRUE, local |-> NoStat]

\* of the record calls made for a codec: their number, the sum of their
\* elapsed_ms, the number of them with success = false
NoCalls == [count |-> 0, ms |-> 0, failed |-> 0]

NoSeen == [codec |-> "none", present |-> FALSE, entry |-> Metrics("none", NoStat), calls |-> NoCalls]

\* the bucket locks (0: free), the threads, the record calls completed since
\* the last reset (log), the entry a snapshot read last together with the
\* calls completed for its codec at that moment (seen), the numbers of
\* record and reset calls so far, and whether a record call was issued for
\* a codec while another thread was recording for it (raced)
TrackOff ==
    [lock |-> [c \in Codecs |-> 0],
     thr |-> [t \in Threads |-> IdleThread],
     log |-> [c \in Codecs |-> NoCalls],
     seen |-> NoSeen,
     records |-> 0, resets |-> 0, raced |-> FALSE, on |-> FALSE]

TrackIdle == track = TrackOff

(* ------------------------- video thumbnails ----------------------------- *)

\* the 5-second mark, in tenths of a second
FiveSeconds == 50

\* durations of the videos, in tenths of a second: 0.5 s, 2.4 s, 4.9 s,
\* 5.0 s, 5.1 s, 10 s, 42 s
Durations == {5, 24, 49, 50, 51, 100, 420}

\* the offset selection with >= for >: a video of exactly 5 s is sought
\* at its very end
SelectOffsetInclusive(duration) ==
    IF duration >= FiveSeconds THEN FiveSeconds ELSE 0

\* the offset of the frame to extract: the 5-second mark when the video is
\* longer than 5 s, the first frame otherwise
SelectOffset(duration) ==
    IF duration > FiveSeconds THEN FiveSeconds ELSE 0

\* the cache check with the answer regenerate for every entry
VideoEntryValidNever(files, mtime) == FALSE

\* the validity check of the cache entry: both files exist and neither is
\* older than the source
VideoEntryValid(files, mtime) ==
    /\ files.small.exists /\ files.medium.exists
    /\ files.small.mtime >= mtime /\ files.medium.mtime >= mtime

NoVideoFile == [exists |-> FALSE, mtime |-> 0]

\* one video file, its cache entry and the call of generate_video_thumbnails
\* on it: clock is the time, runs the subprocesses started so far, calls the
\* calls begun; valid, files0, runs0 and stats0 keep what the call in
\* progress (or the last one) found when it checked the cache
VideoOff ==
    [pc |-> "off", clock |-> 1, mtime |-> 0, duration |-> 0, codec |-> "unknown",
     corrupt |-> FALSE,
     files |-> [small |-> NoVideoFile, medium |-> NoVideoFile],
     offset |-> 0, runs |-> 0, calls |-> 0, status |-> "none", fast |-> FALSE,
     valid |-> FALSE,
     files0 |-> [small |-> NoVideoFile, medium |-> NoVideoFile],
     runs0 |-> 0, stats0 |-> [c \in Codecs |-> NoStat]]

VideoIdle == video = VideoOff

(* ------------------------------ cloud sync ------------------------------ *)

\* the image ids that are rows of the images table
Stored == {1, 2}

\* a row of the images table as inserted: not synced yet
NewRow == [sync_status |-> "pending", synced_at |-> "null"]

\* update_sync_status that leaves synced_at alone
UpdateSyncStatusOnly(db, image_id, status) ==
    IF image_id \in DOMAIN db
    THEN [db EXCEPT ![image_id].sync_status = status]
    ELSE db

\* update_sync_status: UPDATE images SET sync_status, synced_at = now WHERE id
UpdateSyncStatus(db, image_id, status) ==
    IF image_id \in DOMAIN db
    THEN [db EXCEPT ![image_id] = [sync_status |-> status, synced_at |-> "now"]]
    ELSE db

\* the retry test with <= for <: a fourth attempt after a third wait
MoreAttemptsInclusive(attempts) == attempts <= max_attempts

\* attempts < max_attempts: the loop condition of upload_file_with_retry and
\* its test before the sleep
MoreAttempts(attempts) == attempts < max_attempts

\* Duration::from_secs(2u64.pow(attempts - 1))
Delay(attempts) == 2 ^ (attempts - 1)

\* what is remembered of the last time an image was processed: the outcome,
\* whether its status update succeeded, the row before it
NoLast == [outcome |-> "none", updated |-> FALSE, before |-> NewRow]

\* sync_to_drive and upload_file_with_retry: the list passed, the position
\* in it, the images table, the counters and the failed list of the result,
\* the locals of the retry loop (attempts, error) with the upload_file
\* calls made (tries), the sleeps done (waits) and its result; positives is
\* the number of existence checks that answered true, ever the outcomes
\* each image has had in this call, last the latest of them
SyncOff ==
    [pc |-> "off", ids |-> << >>, index |-> 0, db |-> [i \in Stored |-> NewRow],
     uploaded |-> 0, skipped |-> 0, failed |-> << >>,
     attempts |-> 0, tries |-> 0, waits |-> << >>, result |-> "none",
     error |-> [text |-> "", n |-> 0],
     positives |-> 0,
     ever |-> [i \in Stored |-> {}],
     last |-> [i \in Stored |-> NoLast]]

SyncIdle == sync = SyncOff

(* ------------------------------- settings ------------------------------- *)

\* a String is the sequence of its characters; the strings the code names
Strings ==
    [clip |-> <<"c", "l", "i", "p">>,
     mobilenet |-> <<"m", "o", "b", "i", "l", "e", "n", "e", "t">>,
     original |-> <<"o", "r", "i", "g", "i", "n", "a", "l">>,
     high |-> <<"h", "i", "g", "h">>,
     medium |-> <<"m", "e", "d", "i", "u", "m">>]

\* AppSettings::default, with SyncConfig::default and FormatConfig::default
DefaultSettings ==
    [thumbnail_cache_path |-> << >>,
     ai_model |-> Strings.mobilenet,
     sync_config |->
        [enabled |-> FALSE, auto_sync |-> FALSE, sync_interval |-> 60,
         upload_quality |-> Strings.high, exclude_patterns |-> << >>],
     format_config |->
        [image_formats |->
            << <<"j", "p", "g">>, <<"j", "p", "e", "g">>, <<"p", "n", "g">>,
               <<"h", "e", "i", "c">>, <<"r", "a", "w">>, <<"c", "r", "2">>,
               <<"n", "e", "f">>, <<"d", "n", "g">>, <<"a", "r", "w">>,
               <<"w", "e", "b", "p">>, <<"g", "i", "f">>, <<"b", "m", "p">>,
               <<"t", "i", "f", "f">> >>,
         video_formats |->
            << <<"m", "p", "4">>, <<"m", "o", "v">>, <<"a", "v", "i">>,
               <<"m", "k", "v">>, <<"w", "e", "b", "m">>, <<"f", "l", "v">>,
               <<"w", "m", "v">>, <<"m", "4", "v">>, <<"m", "p", "g">>,
               <<"m", "p", "e", "g">>, <<"3", "g", "p">> >>]]

\* the decimal digits
DigitChar == <<"0", "1", "2", "3", "4", "5", "6", "7", "8", "9">>

\* validate_format_string: not empty, no dot, equal to its to_lowercase,
\* every character alphanumeric
ValidateFormatString(format) ==
    LET Lowered(c) == CASE c = "J" -> "j" [] c = "P" -> "p" [] c = "G" -> "g" [] OTHER -> c
        Letters == {"a", "b", "c", "d", "e", "f", "g", "h", "i", "j", "k", "l", "m",
                    "n", "o", "p", "q", "r", "s", "t", "u", "v", "w", "x", "y", "z",
                    "J", "P", "G"}
        Alphanumeric == Letters \cup {DigitChar[i] : i \in 1..10}
    IN  CASE format = << >> -> "Format string cannot be empty."
          [] \E i \in 1..Len(format) : format[i] = "." -> "cannot contain dots"
          [] format # [i \in 1..Len(format) |-> Lowered(format[i])] -> "must be lowercase"
          [] \E i \in 1..Len(format) : format[i] \notin Alphanumeric ->
               "contains invalid characters"
          [] OTHER -> "ok"

\* validate_format_config: the first format string that is refused decides,
\* then the two lists may not be empty
ValidateFormatConfig(config) ==
    LET all == config.image_formats \o config.video_formats
        bad == {i \in 1..Len(all) : ValidateFormatString(all[i]) # "ok"}
    IN  CASE bad # {} ->
               ValidateFormatString(all[CHOOSE i \in bad : \A j \in bad : i <= j])
          [] config.image_formats = << >> -> "At least one image format must be selected."
          [] config.video_formats = << >> -> "At least one video format must be selected."
          [] OTHER -> "ok"

\* validate_settings without the test of the sync interval
ValidateSettingsAnyInterval(s) ==
    LET path == s.thumbnail_cache_path IN
    CASE s.ai_model # Strings.clip /\ s.ai_model # Strings.mobilenet -> "Invalid AI model"
      [] s.sync_config.upload_quality \notin {Strings.original, Strings.high, Strings.medium} ->
           "Invalid upload quality"
      [] \A i \in 1..Len(path) : path[i] \in {" ", "\n"} ->
           "Thumbnail cache path cannot be empty."
      [] OTHER -> ValidateFormatConfig(s.format_config)

\* validate_settings; a path is blank when trim leaves nothing of it
ValidateSettings(s) ==
    LET path == s.thumbnail_cache_path IN
    CASE s.ai_model # Strings.clip /\ s.ai_model # Strings.mobilenet -> "Invalid AI model"
      [] s.sync_config.upload_quality \notin {Strings.original, Strings.high, Strings.medium} ->
           "Invalid upload quality"
      [] s.sync_config.sync_interval < 1 -> "Sync interval must be at least 1 minute."
      [] \A i \in 1..Len(path) : path[i] \in {" ", "\n"} ->
           "Thumbnail cache path cannot be empty."
      [] OTHER -> ValidateFormatConfig(s.format_config)

\* a string written with the quote escaped only
RECURSIVE EscapeQuotesOnly(_)
EscapeQuotesOnly(str) ==
    IF str = << >> THEN << >>
    ELSE (CASE Head(str) = "\"" -> <<"\\", "\"">>
            [] OTHER -> <<Head(str)>>) \o EscapeQuotesOnly(Tail(str))

\* serde_json, a string written: quote, backslash and newline are escaped
RECURSIVE Escape(_)
Escape(str) ==
    IF str = << >> THEN << >>
    ELSE (CASE Head(str) = "\"" -> <<"\\", "\"">>
            [] Head(str) = "\\" -> <<"\\", "\\">>
            [] Head(str) = "\n" -> <<"\\", "n">>
            [] OTHER -> <<Head(str)>>) \o Escape(Tail(str))

\* serde_json, a string read: an escape stands for its character
RECURSIVE Unescape(_)
Unescape(text) ==
    IF text = << >> THEN << >>
    ELSE IF Head(text) = "\\" /\ Len(text) >= 2
         THEN <<(CASE text[2] = "n" -> "\n" [] OTHER -> text[2])>>
                 \o Unescape(Tail(Tail(text)))
         ELSE <<Head(text)>> \o Unescape(Tail(text))

\* serde_json, a u32 written in decimal
RECURSIVE NumberToJson(_)
NumberToJson(n) ==
    IF n < 10 THEN <<DigitChar[n + 1]>>
    ELSE NumberToJson(n \div 10) \o <<DigitChar[(n % 10) + 1]>>

\* serde_json, a u32 read from its digits
RECURSIVE NumberFromJson(_)
NumberFromJson(text) ==
    LET DigitValue(c) == CHOOSE d \in 0..9 : DigitChar[d + 1] = c
    IN  IF Len(text) = 1 THEN DigitValue(text[1])
        ELSE 10 * NumberFromJson(SubSeq(text, 1, Len(text) - 1)) + DigitValue(text[Len(text)])

\* serde_json::to_string_pretty(&AppSettings): an object of the fields by
\* name, each value in its JSON text (strings quoted, booleans as keywords,
\* lists element by element)
ToJson(s) ==
    LET StringToJson(str) == <<"\"">> \o Escape(str) \o <<"\"">>
        BoolToJson(b) == IF b THEN <<"true">> ELSE <<"false">>
        ListToJson(list) == [i \in 1..Len(list) |-> StringToJson(list[i])]
    IN  [thumbnail_cache_path |-> StringToJson(s.thumbnail_cache_path),
         ai_model |-> StringToJson(s.ai_model),
         sync_config |->
            [enabled |-> BoolToJson(s.sync_config.enabled),
             auto_sync |-> BoolToJson(s.sync_config.auto_sync),
             sync_interval |-> NumberToJson(s.sync_config.sync_interval),
             upload_quality |-> StringToJson(s.sync_config.upload_quality),
             exclude_patterns |-> ListToJson(s.sync_config.exclude_patterns)],
         format_config |->
            [image_formats |-> ListToJson(s.format_config.image_formats),
             video_formats |-> ListToJson(s.format_config.video_formats)]]

\* the config file: absent, written whole, or left by a write that broke off
NoConfigFile == [kind |-> "absent", content |-> ToJson(DefaultSettings)]
TornConfigFile == [kind |-> "torn", content |-> ToJson(DefaultSettings)]

\* settings held or returned, and none yet
Some(s) == [is |-> "some", value |-> s]
NoSettings == [is |-> "none", value |-> DefaultSettings]

\* load_from_file: serde_json::from_str of the content, an error when it
\* is not a whole object
LoadFromFile(file) ==
    LET content == file.content
        StringFromJson(text) == Unescape(SubSeq(text, 2, Len(text) - 1))
        BoolFromJson(text) == text = <<"true">>
        ListFromJson(items) == [i \in 1..Len(items) |-> StringFromJson(items[i])]
    IN  IF file.kind = "torn" THEN [is |-> "error", value |-> DefaultSettings]
        ELSE Some(
          [thumbnail_cache_path |-> StringFromJson(content.thumbnail_cache_path),
           ai_model |-> StringFromJson(content.ai_model),
           sync_config |->
              [enabled |-> BoolFromJson(content.sync_config.enabled),
               auto_sync |-> BoolFromJson(content.sync_config.auto_sync),
               sync_interval |-> NumberFromJson(content.sync_config.sync_interval),
               upload_quality |-> StringFromJson(content.sync_config.upload_quality),
               exclude_patterns |-> ListFromJson(content.sync_config.exclude_patterns)],
           format_config |->
              [image_formats |-> ListFromJson(content.format_config.image_formats),
               video_formats |-> ListFromJson(content.format_config.video_formats)]])

\* SettingsManager::new: the file's settings when it exists, else the defaults
NewManager(file) ==
    IF file.kind = "absent" THEN Some(DefaultSettings) ELSE LoadFromFile(file)

\* the settings a caller may pass to save_settings: paths that are blank,
\* plain, or made of characters that are escaped; models, intervals,
\* qualities and format lists that pass validation and that do not
SettingsInputs ==
    {[thumbnail_cache_path |-> p, ai_model |-> a,
      sync_config |-> [enabled |-> e, auto_sync |-> TRUE, sync_interval |-> n,
                       upload_quality |-> q,
                       exclude_patterns |-> << <<"*", ".", "t">>, <<"a", "\n">> >>],
      format_config |-> f] :
        p \in {<<" ">>, <<"/", "a">>, <<"\\", "n", "\"">>},
        a \in {Strings.clip, Strings.mobilenet, <<"x">>},
        e \in BOOLEAN,
        n \in {0, 120},
        q \in {Strings.medium, <<"l", "o", "w">>},
        f \in {DefaultSettings.format_config,
               [image_formats |-> << <<"J", "P", "G">> >>,
                video_formats |-> << <<"m", "p", "4">> >>]}}

\* the config file, the settings of manager 1 (the one save_settings is
\* called on) and of manager 2 (one created afterwards from the same path),
\* what get_settings last returned on each, the outcome of the last
\* save_settings call and its argument when it was accepted, the calls made
SettingsOff ==
    [on |-> FALSE, file |-> NoConfigFile,
     memory |-> [m \in {1, 2} |-> NoSettings],
     got |-> [m \in {1, 2} |-> NoSettings],
     arg |-> NoSettings, last |-> "none", saves |-> 0]

SettingsIdle == settings = SettingsOff

(* ------------------------------ migrations ----------------------------- *)

\* schema_version.version is the PRIMARY KEY: no second row for a version
CanInsertAgain(rows, version) == TRUE

CanInsert(rows, version) == \A i \in 1..Len(rows) : rows[i] # version

\* the database and the run of run_migrations in progress: the rows of
\* schema_version, the tables, columns and indexes there are, the place in
\* the run, its current_version; and of the last run started the rows it
\* found, the migrations it applied and its result; the runs made
MigrationsIdle ==
    migrations = [pc |-> "off", rows |-> << >>, schema |-> {}, current_version |-> 0,
                  start |-> << >>, applied |-> {}, result |-> "none", runs |-> 0]

(* --------------------------- GoogleDriveAuth ---------------------------- *)

\* GoogleDriveAuth::new and the keychain: the OAuthState (0 is None, the
\* random secrets of the k-th start_auth_flow are k), the flows started,
\* the keychain entries there are; of the handle_callback call in progress
\* or last made its place, the state supplied, the flows started when it
\* looked at the OAuthState, whether it made the exchange, the entries it
\* stored and what it returned; the calls made
AuthIdle ==
    auth = [on |-> FALSE, csrf_token |-> 0, pkce_verifier |-> 0, flows |-> 0,
            keychain |-> {}, pc |-> "idle", state |-> 0, flowsSeen |-> 0,
            exchanged |-> FALSE, stored |-> {}, ret |-> "none", callbacks |-> 0]

(* ------------------------------- LRUCache ------------------------------- *)

\* LRUCache: its capacity, the map (keys a, b, c; value 0 is no entry) and
\* the access order; of the last get or put the operation, its key, what it
\* returned or was given, and the map and the times of use before it; for
\* each key the time of its most recent successful get or put; the calls
\* made
LruIdle ==
    lru = [on |-> FALSE, capacity |-> 0,
           cache |-> [k \in {"a", "b", "c"} |-> 0], access_order |-> << >>,
           op |-> "none", key |-> "a", value |-> 0,
           before |-> [cache |-> [k \in {"a", "b", "c"} |-> 0],
                       used |-> [k \in {"a", "b", "c"} |-> 0]],
           used |-> [k \in {"a", "b", "c"} |-> 0], ops |-> 0]

SideIdle == PipeIdle /\ VideoIdle /\ StatsIdle /\ TrackIdle /\ SyncIdle /\ SettingsIdle /\ MigrationsIdle /\ AuthIdle /\ LruIdle

(* ------------------- generate_thumbnails on two files ------------------- *)

\* before the first call: an empty file system but for the sources.  File a
\* is a JPEG by name; file b has one of the extensions bExts and the bytes
\* bBytes, which may be those of a
ThumbInit(bExts, bBytes) ==
    /\ now = 1
    /\ src \in [FilePaths -> [bytes : Bytes, mtime : {0, LastTime}, ext : Exts]]
    /\ src["a"].ext = ExtJpg
    /\ src["a"].bytes = "img1"
    /\ src["b"].ext \in bExts
    /\ src["b"].bytes \in bBytes
    /\ src["b"].mtime = 0
    /\ cacheDir = FALSE
    /\ cache = [n \in Names |-> NoFile]
    /\ call = [p \in Procs |-> IdleCall]
    /\ ret = [p \in Procs |-> IdleCall]
    /\ done = [f \in FilePaths |-> NoPrev]
    /\ calls = 0
    /\ events = 0

\* nothing but generate_thumbnails calls on the files a and b is going on
InitWith(bExts, bBytes) == ThumbInit(bExts, bBytes) /\ SideIdle

\* no generate_thumbnails call on the files a and b is going on
ThumbIdle == ThumbInit({ExtPNG}, {"img1"}) /\ src["a"].mtime = 0

Init == InitWith({ExtPNG, ExtHEIC}, Bytes)

\* the same, with every spelling of an extension load_image does not decode
InitFormats == InitWith({ExtHeic, ExtHEIC, ExtRaw, ExtCr2, ExtNef, ExtNEF}, {"img1"})

(* ------------------------------- returns ------------------------------- *)

\* what ret keeps of a call that has returned
Returned(c, status, why, small, medium) ==
    [c EXCEPT !.pc = "idle", !.mtime = 0, !.img = NoImage, !.size = "small", !.chunk = 0,
              !.status = status, !.err = why, !.small = small, !.medium = medium]

\* return Err(..): the call ends, its record is kept in ret
ReturnErr(p, c, why) ==
    /\ ret' = [ret EXCEPT ![p] = Returned(c, "err", why, << >>, << >>)]
    /\ call' = [call EXCEPT ![p] = IdleCall]
    /\ done' = done

\* return Ok(ThumbnailPaths { small, medium }); files is the cache as the
\* call leaves it
ReturnOk(p, c, files) ==
    LET small == Join(CacheDirName, SmallName(c))
        medium == Join(CacheDirName, MediumName(c))
    IN  /\ ret' = [ret EXCEPT ![p] = Returned(c, "ok", "", small, medium)]
        /\ call' = [call EXCEPT ![p] = IdleCall]
        /\ done' = [done EXCEPT ![c.path] =
                       [ok |-> TRUE, small |-> small, medium |-> medium,
                        current |-> /\ files[SmallName(c)].mtime >= src[c.path].mtime
                                    /\ files[MediumName(c)].mtime >= src[c.path].mtime]]

(* ----------------------- generate_thumbnails -------------------------- *)

\* the early returns placed after create_dir_all
RejectAfterMkdir(p, c, why) ==
    /\ ReturnErr(p, c, why)
    /\ events' = events
    /\ cacheDir' = TRUE

\* lines 28-34: the early returns for a path that is not a regular file
Reject(p, c, why) ==
    /\ ReturnErr(p, c, why)
    /\ events' = events
    /\ cacheDir' = cacheDir

\* whether one more I/O operation may fail in this behaviour
MayFail == events < MaxEvents

\* lines 26-44: the path is checked, the source's mtime is read and the whole
\* file is read and hashed (compute_checksum).  These steps read the source
\* only, which no call writes, so they form one step
Begin(p, path) ==
    /\ UNCHANGED sideVars
    /\ ~Busy(p)
    /\ p = 2 => Busy(1)
    /\ calls < MaxCalls
    /\ calls' = calls + 1
    /\ UNCHANGED <<now, src, cache>>
    /\ LET others == {q \in Procs \ {p} : Busy(q) /\ call[q].path = path}
           c == [IdleCall EXCEPT
                   !.path = path,
                   !.prev = IF path \in FilePaths THEN done[path] ELSE NoPrev,
                   !.overlap = others # {},
                   !.fresh = /\ path \in FilePaths
                             /\ \A z \in Sizes :
                                  ~cache[FileName(Sha256Hex(src[path].bytes), z)].exists]
       IN  IF Kind(path) = "none"
           THEN Reject(p, c, "Image file does not exist")
           ELSE IF Kind(path) # "file"
           THEN Reject(p, c, "Path is not a file")
           ELSE \/ /\ MayFail
                   /\ events' = events + 1
                   /\ cacheDir' = cacheDir
                   /\ \E why \in {"Failed to read file metadata", "Failed to read file for checksum"} :
                        ReturnErr(p, [c EXCEPT !.fault = TRUE], why)
                \/ /\ events' = events
                   /\ cacheDir' = cacheDir
                   /\ call' = [q \in Procs |->
                                 IF q = p
                                 THEN [c EXCEPT !.pc = "check",
                                                !.mtime = src[path].mtime,
                                                !.bytes = src[path].bytes,
                                                !.ck = Sha256Hex(src[path].bytes)]
                                 ELSE IF q \in others
                                 THEN [call[q] EXCEPT !.overlap = TRUE]
                                 ELSE call[q]]
                   /\ ret' = [ret EXCEPT ![p] = IdleCall]
                   /\ done' = done

\* lines 47-67: the cache directory is created, the two paths are derived and
\* the cache is checked; a valid entry is returned at once
Check(p) ==
    /\ UNCHANGED sideVars
    /\ LET c == call[p]
           small == cache[SmallName(c)]
           medium == cache[MediumName(c)]
       IN  /\ c.pc = "check"
           /\ UNCHANGED <<now, src, cache, calls>>
           /\ \/ /\ ~cacheDir
                 /\ MayFail
                 /\ events' = events + 1
                 /\ cacheDir' = cacheDir
                 /\ ReturnErr(p, [c EXCEPT !.fault = TRUE], "Failed to create cache directory")
              \/ /\ cacheDir' = TRUE
                 /\ \E smallFails, mediumFails \in BOOLEAN :
                      /\ (smallFails \/ mediumFails) => (MayFail /\ small.exists /\ medium.exists)
                      /\ events' = IF smallFails \/ mediumFails THEN events + 1 ELSE events
                      /\ LET regen == ShouldRegenerate(small, medium, ~smallFails, ~mediumFails, c.mtime)
                         IN  IF regen
                             THEN /\ call' = [call EXCEPT ![p].pc = "decode"]
                                  /\ UNCHANGED <<ret, done>>
                             ELSE ReturnOk(p, [c EXCEPT !.fast = TRUE], cache)

\* a decode step of a code that creates the small file before it decodes
DecodeAfterCreate(p) ==
    /\ UNCHANGED sideVars
    /\ LET c == call[p]
           kind == LoadKind(src[c.path].ext)
           img == DecodeBytes(src[c.path].bytes)
           created == [cache EXCEPT ![SmallName(c)] = [exists |-> TRUE, data |-> {}, mtime |-> now]]
       IN  /\ c.pc = "decode"
           /\ UNCHANGED <<now, src, cacheDir, calls>>
           /\ IF kind = "heic"
              THEN ReturnErr(p, c, "HEIC format not yet supported") /\ events' = events /\ cache' = cache
              ELSE IF kind = "raw"
              THEN ReturnErr(p, c, "RAW format not yet supported") /\ events' = events /\ cache' = cache
              ELSE \/ /\ MayFail
                      /\ events' = events + 1
                      /\ cache' = cache
                      /\ ReturnErr(p, [c EXCEPT !.fault = TRUE], "Failed to open image")
                   \/ /\ events' = events
                      /\ IF ~img.ok
                         THEN /\ cache' = created
                              /\ ReturnErr(p, c, "Failed to decode image")
                         ELSE /\ cache' = cache
                              /\ call' = [call EXCEPT ![p] =
                                    [c EXCEPT !.pc = "write", !.size = "small", !.chunk = 0,
                                              !.img = ApplyOrientation(img, ExifOrientation(src[c.path].bytes))]]
                              /\ UNCHANGED <<ret, done>>

\* a decode step after which the medium file is made first
DecodeThenMedium(p) ==
    /\ UNCHANGED sideVars
    /\ LET c == call[p]
           kind == LoadKind(src[c.path].ext)
           img == DecodeBytes(src[c.path].bytes)
       IN  /\ c.pc = "decode"
           /\ UNCHANGED <<now, src, cacheDir, cache, calls>>
           /\ IF kind = "heic"
              THEN ReturnErr(p, c, "HEIC format not yet supported") /\ events' = events
              ELSE IF kind = "raw"
              THEN ReturnErr(p, c, "RAW format not yet supported") /\ events' = events
              ELSE \/ /\ MayFail
                      /\ events' = events + 1
                      /\ ReturnErr(p, [c EXCEPT !.fault = TRUE], "Failed to open image")
                   \/ /\ events' = events
                      /\ IF ~img.ok
                         THEN ReturnErr(p, c, "Failed to decode image")
                         ELSE /\ call' = [call EXCEPT ![p] =
                                    [c EXCEPT !.pc = "write", !.size = "medium", !.chunk = 0,
                                              !.img = ApplyOrientation(img, ExifOrientation(src[c.path].bytes))]]
                              /\ UNCHANGED <<ret, done>>

\* lines 70-73, load_image and apply_orientation
Decode(p) ==
    /\ UNCHANGED sideVars
    /\ LET c == call[p]
           kind == LoadKind(src[c.path].ext)
           img == DecodeBytes(src[c.path].bytes)
       IN  /\ c.pc = "decode"
           /\ UNCHANGED <<now, src, cacheDir, cache, calls>>
           /\ IF kind = "heic"
              THEN ReturnErr(p, c, "HEIC format not yet supported") /\ events' = events
              ELSE IF kind = "raw"
              THEN ReturnErr(p, c, "RAW format not yet supported") /\ events' = events
              ELSE \/ /\ MayFail
                      /\ events' = events + 1
                      /\ ReturnErr(p, [c EXCEPT !.fault = TRUE], "Failed to open image")
                   \/ /\ events' = events
                      /\ IF ~img.ok
                         THEN ReturnErr(p, c, "Failed to decode image")
                         ELSE /\ call' = [call EXCEPT ![p] =
                                    [c EXCEPT !.pc = "write", !.size = "small", !.chunk = 0,
                                              !.img = ApplyOrientation(img, ExifOrientation(src[c.path].bytes))]]
                              /\ UNCHANGED <<ret, done>>

\* lines 221-232, generate_thumbnail_size up to File::create inside
\* save_with_format: the output file is created, or truncated if it exists
CreateFile(p) ==
    /\ UNCHANGED sideVars
    /\ LET c == call[p]
           name == FileName(c.ck, c.size)
       IN  /\ c.pc = "write"
           /\ c.chunk = 0
           /\ UNCHANGED <<now, src, cacheDir, calls>>
           /\ \/ /\ MayFail
                 /\ events' = events + 1
                 /\ cache' = cache
                 /\ ReturnErr(p, [c EXCEPT !.fault = TRUE], "Failed to save thumbnail")
              \/ /\ events' = events
                 /\ cache' = [cache EXCEPT ![name] = [exists |-> TRUE, data |-> {}, mtime |-> now]]
                 /\ call' = [call EXCEPT ![p].chunk = 1, ![p].wrote = TRUE]
                 /\ UNCHANGED <<ret, done>>

\* a writer that reopens the file with truncation for every chunk
WriteAtTruncating(file, k, thumb, time) ==
    [exists |-> TRUE, data |-> {<<k, thumb>>}, mtime |-> time]

\* the file after chunk k of the thumbnail is written at its offset
WriteAt(file, k, thumb, time) ==
    [exists |-> TRUE,
     data |-> {d \in file.data : d[1] # k} \cup {<<k, thumb>>},
     mtime |-> time]

\* lines 231-235 and 76-84: the encoder writes the next chunk; after the last
\* chunk of the small file the medium file follows, after the last chunk of
\* the medium file the call returns the two paths
WriteChunk(p) ==
    /\ UNCHANGED sideVars
    /\ LET c == call[p]
           name == FileName(c.ck, c.size)
           files == [cache EXCEPT ![name] = WriteAt(cache[name], c.chunk, Thumbnail(c.img, c.size), now)]
       IN  /\ c.pc = "write"
           /\ c.chunk >= 1
           /\ UNCHANGED <<now, src, cacheDir, calls>>
           /\ \/ /\ MayFail
                 /\ events' = events + 1
                 /\ cache' = cache
                 /\ ReturnErr(p, [c EXCEPT !.fault = TRUE], "Failed to save thumbnail")
              \/ /\ events' = events
                 /\ cache' = files
                 /\ IF c.chunk < LastChunk
                    THEN /\ call' = [call EXCEPT ![p].chunk = c.chunk + 1]
                         /\ UNCHANGED <<ret, done>>
                    ELSE IF c.size = "small"
                    THEN /\ call' = [call EXCEPT ![p].size = "medium", ![p].chunk = 0]
                         /\ UNCHANGED <<ret, done>>
                    ELSE ReturnOk(p, c, files)

(* ----------------------------- environment ----------------------------- *)

\* time passes
Tick ==
    /\ UNCHANGED sideVars
    /\ events < MaxEvents
    /\ events' = events + 1
    /\ now' = now + 1
    /\ UNCHANGED <<src, cacheDir, cache, call, ret, done, calls>>

\* the owner of a source file replaces its content, between calls on it
ModifySource(f, bytes) ==
    /\ UNCHANGED sideVars
    /\ events < MaxEvents
    /\ \A p \in Procs : Busy(p) => call[p].path # f
    /\ bytes # src[f].bytes
    /\ events' = events + 1
    /\ src' = [src EXCEPT ![f].bytes = bytes, ![f].mtime = now]
    /\ done' = [done EXCEPT ![f] = NoPrev]
    /\ UNCHANGED <<now, cacheDir, cache, call, ret, calls>>

Next ==
    \/ \E p \in Procs, path \in Paths : Begin(p, path)
    \/ \E p \in Procs : Check(p)
    \/ \E p \in Procs : Decode(p)
    \/ \E p \in Procs : CreateFile(p)
    \/ \E p \in Procs : WriteChunk(p)
    \/ Tick
    \/ \E f \in FilePaths, bytes \in Bytes : ModifySource(f, bytes)

Spec == Init /\ [][Next]_vars

\* one caller alone: the calls of a batch, one after the other
NextSeq ==
    \/ \E path \in Paths : Begin(1, path)
    \/ Check(1)
    \/ Decode(1)
    \/ CreateFile(1)
    \/ WriteChunk(1)
    \/ Tick
    \/ \E f \in FilePaths, bytes \in Bytes : ModifySource(f, bytes)

SpecSeq == Init /\ [][NextSeq]_vars

\* one caller alone over sources with unsupported extensions
SpecFormats == InitFormats /\ [][NextSeq]_vars

\* two callers over sources with unsupported extensions
SpecFormatsConcurrent == InitFormats /\ [][Next]_vars

(* ------------- the image pipeline as a specification ----------------- *)

\* load_image has returned an image of any size, with any orientation tag
InitImage ==
    /\ ThumbIdle /\ VideoIdle /\ StatsIdle /\ TrackIdle /\ SyncIdle /\ SettingsIdle /\ MigrationsIdle /\ AuthIdle /\ LruIdle
    /\ \E w, h \in Sides, t \in ExifReads :
          LET img == [ok |-> TRUE, id |-> "img", w |-> w, h |-> h, at |-> Upright]
          IN  pipe = [PipeOff EXCEPT !.pc = "loaded", !.tag = t, !.raw = img, !.img = img]

\* line 73: let img = apply_orientation(img, path)?
Orient ==
    /\ pipe.pc = "loaded"
    /\ LET r == OrientImage(pipe.img, pipe.tag)
       IN  pipe' = IF r.ok
                   THEN [pipe EXCEPT !.pc = "oriented", !.img = r.img]
                   ELSE [pipe EXCEPT !.pc = "failed"]
    /\ UNCHANGED <<thumbVars, video, stats, track, sync, settings, migrations, auth, lru>>

\* lines 76 and 79: generate_thumbnail_size for the small, then the medium
\* width (resize_exact to the target width and the computed height)
Resize(size) ==
    /\ \/ size = "small" /\ pipe.pc = "oriented"
       \/ size = "medium" /\ pipe.pc = "small"
    /\ \E h \in TargetHeights(pipe.img, Width(size)) :
          LET thumb == [Thumbnail(pipe.img, size) EXCEPT !.h = h]
          IN  pipe' = IF size = "small"
                      THEN [pipe EXCEPT !.pc = "small", !.small = thumb]
                      ELSE [pipe EXCEPT !.pc = "done", !.medium = thumb]
    /\ UNCHANGED <<thumbVars, video, stats, track, sync, settings, migrations, auth, lru>>

NextImage ==
    \/ Orient
    \/ \E size \in Sizes : Resize(size)

SpecImage == InitImage /\ [][NextImage]_vars

(* ------------- generate_video_thumbnails on one video ------------------ *)

\* a video file of any duration and codec, intact or corrupt, last modified
\* in the past or (by its timestamp) ahead of the clock; nothing cached
InitVideo ==
    /\ ThumbIdle /\ PipeIdle /\ StatsIdle /\ TrackIdle /\ SyncIdle /\ SettingsIdle /\ MigrationsIdle /\ AuthIdle /\ LruIdle
    /\ \E d \in Durations, c \in Codecs, bad \in BOOLEAN, m \in {0, LastTime} :
          video = [VideoOff EXCEPT !.pc = "idle", !.duration = d, !.codec = c,
                                   !.corrupt = bad, !.mtime = m]

\* steps 1 to 3: the path is validated, the modification time read, the
\* checksum computed
VideoBegin ==
    /\ video.pc = "idle"
    /\ video.calls < MaxCalls
    /\ video' = [video EXCEPT !.pc = "check", !.calls = @ + 1, !.status = "none",
                              !.fast = FALSE, !.offset = 0]
    /\ UNCHANGED <<thumbVars, pipe, stats, track, sync, settings, migrations, auth, lru>>

\* step 4: the cache paths are derived and the entry checked; a valid entry
\* is returned at once
VideoCheck ==
    /\ video.pc = "check"
    /\ LET v == [video EXCEPT !.valid = VideoEntryValid(video.files, video.mtime),
                              !.files0 = video.files, !.runs0 = video.runs,
                              !.stats0 = stats]
       IN  video' = IF VideoEntryValid(video.files, video.mtime)
                    THEN [v EXCEPT !.pc = "idle", !.status = "ok", !.fast = TRUE]
                    ELSE [v EXCEPT !.pc = "probe"]
    /\ UNCHANGED <<thumbVars, pipe, stats, track, sync, settings, migrations, auth, lru>>

\* step 5, video: the prober is run for the duration and the offset chosen
VideoProbe ==
    /\ video.pc = "probe"
    /\ video' = [video EXCEPT !.pc = "extract", !.runs = @ + 1,
                              !.offset = SelectOffset(video.duration)]
    /\ UNCHANGED <<thumbVars, pipe, stats, track, sync, settings, migrations, auth, lru>>

\* step 5, video: the transcoder is run for the frame at the offset and its
\* time recorded for the codec; a corrupt video makes it fail
VideoExtract ==
    /\ video.pc = "extract"
    /\ \E ms \in Elapsed :
          stats' = [stats EXCEPT ![video.codec] = RecordInto(@, ms, ~video.corrupt)]
    /\ video' = IF video.corrupt
                THEN [video EXCEPT !.pc = "idle", !.runs = @ + 1, !.status = "err"]
                ELSE [video EXCEPT !.pc = "write", !.runs = @ + 1]
    /\ UNCHANGED <<thumbVars, pipe, track, sync, settings, migrations, auth, lru>>

\* steps 6 and 7: both sizes are written and the paths returned
VideoWrite ==
    /\ video.pc = "write"
    /\ video' = [video EXCEPT !.pc = "idle", !.status = "ok",
                              !.files = [small |-> [exists |-> TRUE, mtime |-> video.clock],
                                         medium |-> [exists |-> TRUE, mtime |-> video.clock]]]
    /\ UNCHANGED <<thumbVars, pipe, stats, track, sync, settings, migrations, auth, lru>>

\* time passes
VideoTick ==
    /\ video.clock < LastTime
    /\ video' = [video EXCEPT !.clock = @ + 1]
    /\ UNCHANGED <<thumbVars, pipe, stats, track, sync, settings, migrations, auth, lru>>

NextVideo ==
    \/ VideoBegin
    \/ VideoCheck
    \/ VideoProbe
    \/ VideoExtract
    \/ VideoWrite
    \/ VideoTick

SpecVideo == InitVideo /\ [][NextVideo]_vars

(* ---------- the codec performance tracker used by two threads ---------- *)

InitTracker ==
    /\ ThumbIdle /\ PipeIdle /\ VideoIdle /\ StatsIdle /\ SyncIdle /\ SettingsIdle /\ MigrationsIdle /\ AuthIdle /\ LruIdle
    /\ track = [TrackOff EXCEPT !.on = TRUE]

\* a bucket is entered with every lock taken as free
CanEnterUnlocked(c, t) == TRUE

\* updates of one codec are serialized: its bucket is entered when free
CanEnter(c, t) == track.lock[c] = 0

\* one more record call in the account of the calls made for a codec
Counted(recs, ms, ok) ==
    [count |-> recs.count + 1, ms |-> recs.ms + ms,
     failed |-> recs.failed + (IF ok THEN 0 ELSE 1)]

\* a thread calls record(codec_name, elapsed_ms, success); the threads being
\* alike, the second one is taken only when the first is in a call
RecordCall(t, c, ms, ok) ==
    /\ track.on
    /\ track.thr[t].pc = "idle"
    /\ t = 2 => track.thr[1].pc # "idle"
    /\ track.records < MaxRecords
    /\ track' = [track EXCEPT
                   !.records = @ + 1,
                   !.raced = @ \/ \E u \in Threads \ {t} :
                                    track.thr[u].pc # "idle" /\ track.thr[u].codec = c,
                   !.thr[t] = [pc |-> "enter", codec |-> c, ms |-> ms, ok |-> ok,
                               local |-> NoStat]]
    /\ UNCHANGED <<thumbVars, pipe, video, stats, sync, settings, migrations, auth, lru>>

\* record: the codec's bucket is entered and its totals are read
RecordEnter(t) ==
    LET me == track.thr[t]
    IN  /\ me.pc = "enter"
        /\ CanEnter(me.codec, t)
        /\ track' = [track EXCEPT !.lock[me.codec] = t,
                                  !.thr[t].pc = "count",
                                  !.thr[t].local = stats[me.codec]]
        /\ UNCHANGED <<thumbVars, pipe, video, stats, sync, settings, migrations, auth, lru>>

\* record: the new totals are written, field by field; the call is
\* complete with the last one, and the bucket is left
RecordWrite(t) ==
    LET me == track.thr[t]
        new == RecordInto(me.local, me.ms, me.ok)
    IN  /\ me.pc \in {"count", "time", "failures"}
        /\ UNCHANGED <<thumbVars, pipe, video, sync, settings, migrations, auth, lru>>
        /\ \/ /\ me.pc = "count"
              /\ stats' = [stats EXCEPT ![me.codec].present = TRUE,
                                        ![me.codec].sample_count = new.sample_count]
              /\ track' = [track EXCEPT !.thr[t].pc = "time"]
           \/ /\ me.pc = "time"
              /\ stats' = [stats EXCEPT ![me.codec].cumulative_time_ms = new.cumulative_time_ms]
              /\ track' = [track EXCEPT !.thr[t].pc = "failures"]
           \/ /\ me.pc = "failures"
              /\ stats' = [stats EXCEPT ![me.codec].failure_count = new.failure_count]
              /\ track' = [track EXCEPT
                             !.thr[t] = IdleThread,
                             !.lock[me.codec] = IF @ = t THEN 0 ELSE @,
                             !.log[me.codec] = Counted(@, me.ms, me.ok)]

\* snapshot(): the entry of one codec is read from its bucket
SnapshotRead(t, c) ==
    /\ track.on
    /\ track.thr[t].pc = "idle"
    /\ CanEnter(c, t)
    /\ track' = [track EXCEPT
                   !.seen = [codec |-> c, present |-> stats[c].present,
                             entry |-> Metrics(c, stats[c]),
                             calls |-> track.log[c]]]
    /\ UNCHANGED <<thumbVars, pipe, video, stats, sync, settings, migrations, auth, lru>>

\* reset(): every bucket is taken and cleared
Reset(t) ==
    /\ track.on
    /\ track.thr[t].pc = "idle"
    /\ track.resets < MaxResets
    /\ \A c \in Codecs : CanEnter(c, t)
    /\ stats' = Cleared(stats)
    /\ track' = [track EXCEPT !.resets = @ + 1, !.log = [c \in Codecs |-> NoCalls]]
    /\ UNCHANGED <<thumbVars, pipe, video, sync, settings, migrations, auth, lru>>

NextTracker ==
    \/ \E t \in Threads, c \in TrackCodecs, ms \in Elapsed, ok \in BOOLEAN : RecordCall(t, c, ms, ok)
    \/ \E t \in Threads : RecordEnter(t)
    \/ \E t \in Threads : RecordWrite(t)
    \/ \E t \in Threads, c \in TrackCodecs : SnapshotRead(t, c)
    \/ \E t \in Threads : Reset(t)

SpecTracker == InitTracker /\ [][NextTracker]_vars

(* ---------------------------- sync_to_drive ----------------------------- *)

\* a caller passes up to MaxIds image ids, one of them (3) not in the table
InitSync ==
    /\ ThumbIdle /\ PipeIdle /\ VideoIdle /\ StatsIdle /\ TrackIdle /\ SettingsIdle /\ MigrationsIdle /\ AuthIdle /\ LruIdle
    /\ \E n \in 0..MaxIds : \E l \in [1..n -> Stored \cup {3}] :
          sync = [SyncOff EXCEPT !.pc = "start", !.ids = l]

\* the image being processed
Current == sync.ids[sync.index]

\* a loop that ends at the first image that failed
AdvanceUntilFailure(s) ==
    IF s.index < Len(s.ids) /\ s.failed = << >>
    THEN [s EXCEPT !.pc = "lookup", !.index = @ + 1]
    ELSE [s EXCEPT !.pc = "done"]

\* the loop of sync_to_drive goes on to the next image, or ends
Advance(s) ==
    IF s.index < Len(s.ids)
    THEN [s EXCEPT !.pc = "lookup", !.index = @ + 1]
    ELSE [s EXCEPT !.pc = "done"]

\* the outcome of processing image i is noted: the row found before,
\* whether the status update went through
Noted(s, i, outcome, updated) ==
    [s EXCEPT !.ever[i] = @ \cup {outcome},
              !.last[i] = [outcome |-> outcome, updated |-> updated, before |-> sync.db[i]]]

\* get_valid_access_token: with a token the loop starts, without one
\* sync_to_drive returns the error
SyncStart ==
    /\ sync.pc = "start"
    /\ \/ sync' = Advance(sync)
       \/ sync' = [sync EXCEPT !.pc = "denied"]
    /\ UNCHANGED <<thumbVars, pipe, video, stats, track, settings, migrations, auth, lru>>

\* get_image_by_id: the row, no row, or a database error
SyncLookup ==
    /\ sync.pc = "lookup"
    /\ \/ /\ Current \in Stored
          /\ sync' = [sync EXCEPT !.pc = "exists"]
       \/ /\ Current \notin Stored
          /\ sync' = Advance([sync EXCEPT !.failed = Append(@, Current)])
       \/ sync' = Advance([sync EXCEPT !.failed = Append(@, Current)])
    /\ UNCHANGED <<thumbVars, pipe, video, stats, track, settings, migrations, auth, lru>>

\* file_exists_in_drive: Ok(true) skips the image and marks it synced (an
\* error of the update is dropped); Ok(false) and Err go on to the upload
SyncExists(answer) ==
    /\ sync.pc = "exists"
    /\ IF answer = "true"
       THEN \E updated \in BOOLEAN :
              sync' = Advance(Noted(
                        [sync EXCEPT !.skipped = @ + 1, !.positives = @ + 1,
                                     !.db = IF updated
                                            THEN UpdateSyncStatus(@, Current, "synced")
                                            ELSE @],
                        Current, "skipped", updated))
       ELSE sync' = [sync EXCEPT !.pc = "upload", !.attempts = 0, !.tries = 0,
                                 !.waits = << >>, !.result = "none",
                                 !.error = [text |-> "", n |-> 0]]
    /\ UNCHANGED <<thumbVars, pipe, video, stats, track, settings, migrations, auth, lru>>

\* upload_file_with_retry: one turn of the loop, upload_file succeeding or
\* failing
UploadAttempt(ok) ==
    /\ sync.pc = "upload"
    /\ MoreAttempts(sync.attempts)
    /\ sync' = IF ok
               THEN [sync EXCEPT !.pc = "update", !.tries = @ + 1, !.result = "ok"]
               ELSE [sync EXCEPT !.tries = @ + 1, !.attempts = @ + 1,
                                 !.pc = IF MoreAttempts(sync.attempts + 1)
                                        THEN "backoff" ELSE "upload"]
    /\ UNCHANGED <<thumbVars, pipe, video, stats, track, settings, migrations, auth, lru>>

\* upload_file_with_retry: sleep(delay) before the next attempt
Backoff ==
    /\ sync.pc = "backoff"
    /\ sync' = [sync EXCEPT !.pc = "upload", !.waits = Append(@, Delay(sync.attempts))]
    /\ UNCHANGED <<thumbVars, pipe, video, stats, track, settings, migrations, auth, lru>>

\* upload_file_with_retry: the loop is left, the error returned
UploadGiveUp ==
    /\ sync.pc = "upload"
    /\ ~MoreAttempts(sync.attempts)
    /\ sync' = [sync EXCEPT !.pc = "update", !.result = "err",
                            !.error = [text |-> "Upload failed after {} attempts",
                                       n |-> max_attempts]]
    /\ UNCHANGED <<thumbVars, pipe, video, stats, track, settings, migrations, auth, lru>>

\* sync_to_drive: the result of the upload is counted and the status set to
\* synced or failed (an error of the update is logged or dropped)
SyncUpdate ==
    /\ sync.pc = "update"
    /\ \E updated \in BOOLEAN :
          sync' = IF sync.result = "ok"
                  THEN Advance(Noted(
                         [sync EXCEPT !.uploaded = @ + 1,
                                      !.db = IF updated
                                             THEN UpdateSyncStatus(@, Current, "synced")
                                             ELSE @],
                         Current, "uploaded", updated))
                  ELSE Advance(Noted(
                         [sync EXCEPT !.failed = Append(@, Current),
                                      !.db = IF updated
                                             THEN UpdateSyncStatus(@, Current, "failed")
                                             ELSE @],
                         Current, "failed", updated))
    /\ UNCHANGED <<thumbVars, pipe, video, stats, track, settings, migrations, auth, lru>>

NextSync ==
    \/ SyncStart
    \/ SyncLookup
    \/ \E answer \in {"true", "false", "err"} : SyncExists(answer)
    \/ \E ok \in BOOLEAN : UploadAttempt(ok)
    \/ Backoff
    \/ UploadGiveUp
    \/ SyncUpdate

SpecSync == InitSync /\ [][NextSync]_vars

(* ---------------------------- SettingsManager -------------------------- *)

\* the application has created its manager; there is no config file yet
InitSettings ==
    /\ ThumbIdle /\ PipeIdle /\ VideoIdle /\ StatsIdle /\ TrackIdle /\ SyncIdle /\ MigrationsIdle /\ AuthIdle /\ LruIdle
    /\ settings = [SettingsOff EXCEPT !.on = TRUE, !.memory[1] = NewManager(NoConfigFile)]

\* save_settings on manager 1: settings that fail validation are refused;
\* else they replace the settings in memory, then the directory is made and
\* the file written, and either may fail (a write that fails may leave the
\* file as it was or broken off). A manager created before is forgotten.
SaveSettings(new_settings, io) ==
    /\ settings.on
    /\ settings.saves < MaxSaves
    /\ LET fresh == [settings EXCEPT !.saves = @ + 1,
                                     !.memory[2] = NoSettings,
                                     !.got = [m \in {1, 2} |-> NoSettings]]
       IN  IF ValidateSettings(new_settings) # "ok"
           THEN /\ io = "ok"
                /\ settings' = [fresh EXCEPT !.last = "invalid"]
           ELSE CASE io = "ok" ->
                       settings' = [fresh EXCEPT !.arg = Some(new_settings), !.memory[1] = Some(new_settings),
                                                 !.file = [kind |-> "whole", content |-> ToJson(new_settings)],
                                                 !.last = "ok"]
                  [] io = "mkdir" ->
                       settings' = [fresh EXCEPT !.arg = Some(new_settings), !.memory[1] = Some(new_settings),
                                                 !.last = "failed"]
                  [] io = "write" ->
                       \E left \in {settings.file, TornConfigFile} :
                         settings' = [fresh EXCEPT !.arg = Some(new_settings), !.memory[1] = Some(new_settings),
                                                   !.file = left,
                                                   !.last = "failed"]
    /\ UNCHANGED <<thumbVars, pipe, video, stats, track, sync, migrations, auth, lru>>

\* SettingsManager::new(config_path) once more, as after a restart
Reopen ==
    /\ settings.on
    /\ settings.memory[2] = NoSettings
    /\ settings' = [settings EXCEPT !.memory[2] = NewManager(settings.file)]
    /\ UNCHANGED <<thumbVars, pipe, video, stats, track, sync, migrations, auth, lru>>

\* get_settings: a clone of the manager's settings
GetSettings(m) ==
    /\ settings.on
    /\ settings.memory[m].is = "some"
    /\ settings.got[m] = NoSettings
    /\ settings' = [settings EXCEPT !.got[m] = settings.memory[m]]
    /\ UNCHANGED <<thumbVars, pipe, video, stats, track, sync, migrations, auth, lru>>

NextSettings ==
    \/ \E s \in SettingsInputs, io \in {"ok", "mkdir", "write"} : SaveSettings(s, io)
    \/ Reopen
    \/ \E m \in {1, 2} : GetSettings(m)

SpecSettings == InitSettings /\ [][NextSettings]_vars

(* ---------------------------- run_migrations ---------------------------- *)

\* a database that is new, or that was left at version 1 or 2
InitMigrations ==
    /\ ThumbIdle /\ PipeIdle /\ VideoIdle /\ StatsIdle /\ TrackIdle /\ SyncIdle /\ SettingsIdle /\ AuthIdle /\ LruIdle
    /\ \E v \in 0..CURRENT_VERSION :
          migrations =
            [pc |-> "idle", rows |-> [i \in 1..v |-> i],
             schema |-> (IF v >= 1 THEN {"v1"} ELSE {})
                        \cup (IF v >= 2 THEN {"media_type", "duration_seconds", "video_codec",
                                              "idx_images_media_type"} ELSE {}),
             current_version |-> 0, start |-> << >>, applied |-> {},
             result |-> "none", runs |-> 0]

\* run_migrations up to the version read: the schema_version table is
\* created if it is not there, MAX(version) is read, and a query that fails
\* counts as version 0
RunMigrations(created, queried) ==
    /\ migrations.pc = "idle"
    /\ migrations.runs < MaxRuns
    /\ LET rows == migrations.rows
           highest == IF rows = << >> THEN 0
                      ELSE CHOOSE v \in 1..CURRENT_VERSION :
                             /\ \E i \in 1..Len(rows) : rows[i] = v
                             /\ \A i \in 1..Len(rows) : rows[i] <= v
           begun == [migrations EXCEPT !.runs = @ + 1, !.start = rows, !.applied = {},
                                       !.result = "none", !.current_version = 0]
       IN  IF ~created
           THEN /\ queried
                /\ migrations' = [begun EXCEPT !.result = "err"]
           ELSE migrations' = [begun EXCEPT !.pc = "v1",
                                            !.current_version = IF queried THEN highest ELSE 0]
    /\ UNCHANGED <<thumbVars, pipe, video, stats, track, sync, settings, auth, lru>>

\* migrate_to_v1 when current_version < 1: every statement is IF NOT
\* EXISTS; a statement that fails ends the run
MigrateToV1(ok) ==
    /\ migrations.pc = "v1"
    /\ IF migrations.current_version < 1
       THEN migrations' =
              IF ok THEN [migrations EXCEPT !.pc = "record1", !.schema = @ \cup {"v1"},
                                            !.applied = @ \cup {1}]
              ELSE [migrations EXCEPT !.pc = "idle", !.result = "err",
                                      !.applied = @ \cup {1}]
       ELSE ok /\ migrations' = [migrations EXCEPT !.pc = "v2"]
    /\ UNCHANGED <<thumbVars, pipe, video, stats, track, sync, settings, auth, lru>>

\* record_migration(version): the INSERT fails on a version that has a row,
\* and may fail otherwise; after version 2 the run returns Ok
RecordMigration(version, ok) ==
    /\ migrations.pc = (IF version = 1 THEN "record1" ELSE "record2")
    /\ migrations' =
         IF ok /\ CanInsert(migrations.rows, version)
         THEN [migrations EXCEPT !.rows = Append(@, version),
                                 !.pc = IF version = 1 THEN "v2" ELSE "idle",
                                 !.result = IF version = 1 THEN @ ELSE "ok"]
         ELSE [migrations EXCEPT !.pc = "idle", !.result = "err"]
    /\ UNCHANGED <<thumbVars, pipe, video, stats, track, sync, settings, auth, lru>>

\* migrate_to_v2 when current_version < 2: the columns that are not there
\* are added, then the index, then the rows are counted; the statements up
\* to number upto succeed. Without it the run returns Ok.
MigrateToV2(upto) ==
    /\ migrations.pc = "v2"
    /\ LET added == <<"media_type", "duration_seconds", "video_codec", "idx_images_media_type">>
       IN  IF migrations.current_version < 2
           THEN migrations' =
                  [migrations EXCEPT !.schema = @ \cup {added[i] : i \in 1..(IF upto > 4 THEN 4 ELSE upto)},
                                     !.applied = @ \cup {2},
                                     !.pc = IF upto = 5 THEN "record2" ELSE "idle",
                                     !.result = IF upto = 5 THEN @ ELSE "err"]
           ELSE /\ upto = 5
                /\ migrations' = [migrations EXCEPT !.pc = "idle", !.result = "ok"]
    /\ UNCHANGED <<thumbVars, pipe, video, stats, track, sync, settings, auth, lru>>

NextMigrations ==
    \/ \E created, queried \in BOOLEAN : RunMigrations(created, queried)
    \/ \E ok \in BOOLEAN : MigrateToV1(ok)
    \/ \E version \in 1..CURRENT_VERSION, ok \in BOOLEAN : RecordMigration(version, ok)
    \/ \E upto \in 0..5 : MigrateToV2(upto)

SpecMigrations == InitMigrations /\ [][NextMigrations]_vars

(* ----------------------------- handle_callback -------------------------- *)

InitAuth ==
    /\ ThumbIdle /\ PipeIdle /\ VideoIdle /\ StatsIdle /\ TrackIdle /\ SyncIdle /\ SettingsIdle /\ LruIdle
    /\ MigrationsIdle
    /\ auth = [on |-> TRUE, csrf_token |-> 0, pkce_verifier |-> 0, flows |-> 0,
               keychain |-> {}, pc |-> "idle", state |-> 0, flowsSeen |-> 0,
               exchanged |-> FALSE, stored |-> {}, ret |-> "none", callbacks |-> 0]

\* start_auth_flow: a new random CSRF token and PKCE verifier replace the
\* stored ones, under the lock
StartAuthFlow ==
    /\ auth.on
    /\ auth.flows < MaxFlows
    /\ auth' = [auth EXCEPT !.flows = @ + 1, !.csrf_token = auth.flows + 1,
                            !.pkce_verifier = auth.flows + 1]
    /\ UNCHANGED <<thumbVars, pipe, video, stats, track, sync, settings, migrations, lru>>

\* handle_callback that goes on whenever a token is stored
HandleCallbackUnverified(state) ==
    /\ auth.on
    /\ auth.pc = "idle"
    /\ auth.callbacks < MaxCallbacks
    /\ LET called == [auth EXCEPT !.callbacks = @ + 1, !.state = state,
                                  !.flowsSeen = auth.flows, !.exchanged = FALSE,
                                  !.stored = {}, !.ret = "none"]
       IN  auth' = CASE auth.csrf_token = 0 -> [called EXCEPT !.ret = "No CSRF token found"]
                     [] OTHER -> [called EXCEPT !.pc = "exchange"]
    /\ UNCHANGED <<thumbVars, pipe, video, stats, track, sync, settings, migrations, lru>>

\* handle_callback, under the lock: no stored CSRF token, a state that
\* differs from it, no PKCE verifier; else the call goes on to the exchange
HandleCallback(state) ==
    /\ auth.on
    /\ auth.pc = "idle"
    /\ auth.callbacks < MaxCallbacks
    /\ LET called == [auth EXCEPT !.callbacks = @ + 1, !.state = state,
                                  !.flowsSeen = auth.flows, !.exchanged = FALSE,
                                  !.stored = {}, !.ret = "none"]
       IN  auth' = CASE auth.csrf_token = 0 -> [called EXCEPT !.ret = "No CSRF token found"]
                     [] state # auth.csrf_token -> [called EXCEPT !.ret = "CSRF token mismatch"]
                     [] auth.pkce_verifier = 0 -> [called EXCEPT !.ret = "No PKCE verifier found"]
                     [] OTHER -> [called EXCEPT !.pc = "exchange"]
    /\ UNCHANGED <<thumbVars, pipe, video, stats, track, sync, settings, migrations, lru>>

\* handle_callback: the code is exchanged for tokens, or the request fails
ExchangeCode(ok) ==
    /\ auth.pc = "exchange"
    /\ auth' = IF ok THEN [auth EXCEPT !.pc = "store", !.exchanged = TRUE]
               ELSE [auth EXCEPT !.pc = "idle", !.exchanged = TRUE,
                                 !.ret = "Failed to exchange code for token"]
    /\ UNCHANGED <<thumbVars, pipe, video, stats, track, sync, settings, migrations, lru>>

\* store_tokens: the access token, the refresh token if there is one and
\* the expiry are written to the keychain; the first write that fails ends
\* the call with its error
StoreTokens(refresh, upto) ==
    /\ auth.pc = "store"
    /\ LET entries == IF refresh THEN <<"access", "refresh", "expires">>
                      ELSE <<"access", "expires">>
           written == {entries[i] : i \in {j \in 1..Len(entries) : j <= upto}}
       IN  /\ upto <= Len(entries)
           /\ auth' = [auth EXCEPT !.pc = "idle",
                                   !.keychain = @ \cup written,
                                   !.stored = written,
                                   !.ret = IF upto = Len(entries) THEN "ok"
                                           ELSE "Failed to store"]
    /\ UNCHANGED <<thumbVars, pipe, video, stats, track, sync, settings, migrations, lru>>

NextAuth ==
    \/ StartAuthFlow
    \/ \E state \in 0..MaxFlows : HandleCallback(state)
    \/ \E ok \in BOOLEAN : ExchangeCode(ok)
    \/ \E refresh \in BOOLEAN, upto \in 0..3 : StoreTokens(refresh, upto)

SpecAuth == InitAuth /\ [][NextAuth]_vars

(* ------------------------------- LRUCache ------------------------------- *)

\* LRUCache::new(capacity)
InitLru ==
    /\ ThumbIdle /\ PipeIdle /\ VideoIdle /\ StatsIdle /\ TrackIdle /\ SyncIdle /\ SettingsIdle
    /\ MigrationsIdle /\ AuthIdle
    /\ \E capacity \in 0..MaxCapacity :
          lru = [on |-> TRUE, capacity |-> capacity,
                 cache |-> [k \in {"a", "b", "c"} |-> 0], access_order |-> << >>,
                 op |-> "none", key |-> "a", value |-> 0,
                 before |-> [cache |-> [k \in {"a", "b", "c"} |-> 0],
                             used |-> [k \in {"a", "b", "c"} |-> 0]],
                 used |-> [k \in {"a", "b", "c"} |-> 0], ops |-> 0]

\* get: a key that is there moves to the end of the access order and its
\* value is returned; a key that is not there changes nothing
LruGet(key) ==
    /\ lru.on
    /\ lru.ops < MaxOps
    /\ LET called == [lru EXCEPT !.ops = @ + 1, !.op = "get", !.key = key,
                                 !.value = lru.cache[key],
                                 !.before = [cache |-> lru.cache, used |-> lru.used]]
       IN  lru' = IF lru.cache[key] # 0
                  THEN [called EXCEPT
                          !.access_order = Append(SelectSeq(@, LAMBDA k : k # key), key),
                          !.used[key] = lru.ops + 1]
                  ELSE called
    /\ UNCHANGED <<thumbVars, pipe, video, stats, track, sync, settings, migrations, auth>>

\* put: a key that is there gets the value and moves to the end of the
\* access order; for a new key, when the map holds capacity entries or
\* more, the first key of the access order, if there is one, is removed
\* from both, then the key is inserted and pushed
LruPut(key, value) ==
    /\ lru.on
    /\ lru.ops < MaxOps
    /\ LET called == [lru EXCEPT !.ops = @ + 1, !.op = "put", !.key = key, !.value = value,
                                 !.before = [cache |-> lru.cache, used |-> lru.used],
                                 !.used[key] = lru.ops + 1]
           len == Cardinality({k \in DOMAIN lru.cache : lru.cache[k] # 0})
           order == lru.access_order
       IN  lru' = IF lru.cache[key] # 0
                  THEN [called EXCEPT
                          !.cache[key] = value,
                          !.access_order = Append(SelectSeq(@, LAMBDA k : k # key), key)]
                  ELSE IF len >= lru.capacity /\ order # << >>
                  THEN [called EXCEPT
                          !.cache = [@ EXCEPT ![Head(order)] = 0, ![key] = value],
                          !.access_order = Append(Tail(order), key)]
                  ELSE [called EXCEPT
                          !.cache[key] = value,
                          !.access_order = Append(order, key)]
    /\ UNCHANGED <<thumbVars, pipe, video, stats, track, sync, settings, migrations, auth>>

NextLru ==
    \/ \E key \in {"a", "b", "c"} : LruGet(key)
    \/ \E key \in {"a", "b", "c"}, value \in 1..2 : LruPut(key, value)

SpecLru == InitLru /\ [][NextLru]_vars

(* ------------------------------ properties ----------------------------- *)

\* the calls that have returned on a regular file without meeting an I/O failure
Finished(p) == ret[p].status # "none" /\ ret[p].path \in FilePaths /\ ~ret[p].fault

\* caller p returns Ok in this step
ReturnsOk(p) == Busy(p) /\ call'[p].pc = "idle" /\ ret'[p].status = "ok"

\* the file of this name in files is a complete thumbnail of the bytes
CompleteIn(files, bytes, size) ==
    LET f == files[FileName(Sha256Hex(bytes), size)]
    IN  f.exists /\ f.data = Expected(bytes, size)

\* C1 as stated: a call on a source on which an earlier call succeeded, and
\* which has not changed since, returns the earlier call's two paths and
\* writes no cache file.
C1_Idempotent ==
    \A p \in Procs :
        (Finished(p) /\ ret[p].prev.ok) =>
            /\ ret[p].status = "ok"
            /\ ret[p].small = ret[p].prev.small
            /\ ret[p].medium = ret[p].prev.medium
            /\ ~ret[p].wrote

\* C1 amended: the same, for a source whose modification time was not later
\* than the modification times of the two cache files when the earlier call
\* returned.
C1_IdempotentWhenCurrent ==
    \A p \in Procs :
        (Finished(p) /\ ret[p].prev.ok /\ ret[p].prev.current) =>
            /\ ret[p].status = "ok"
            /\ ret[p].small = ret[p].prev.small
            /\ ret[p].medium = ret[p].prev.medium
            /\ ~ret[p].wrote

\* a second call on an unchanged source has returned by the fast path, later
\* on the clock than the files were written
C1_Witness ==
    \E p \in Procs :
        /\ Finished(p) /\ ret[p].prev.ok /\ ret[p].prev.current
        /\ ret[p].status = "ok" /\ ret[p].fast
        /\ now > cache[FileName(ret[p].ck, "small")].mtime
        /\ now > cache[FileName(ret[p].ck, "medium")].mtime

\* the cache entry of call c in files: both files exist and neither is older
\* than the source
ValidEntry(files, c) ==
    /\ files[SmallName(c)].exists
    /\ files[MediumName(c)].exists
    /\ files[SmallName(c)].mtime >= c.mtime
    /\ files[MediumName(c)].mtime >= c.mtime

\* C2: whenever a call checks the cache, it reuses the entry (returns at
\* once) if and only if both files exist and neither file's modification time
\* is older than the source's, whether or not the times can be read.
C2_ReuseIffValid ==
    [][\A p \in Procs :
          (call[p].pc = "check" /\ call'[p].pc # "check" /\ ret'[p].status # "err") =>
              (ReturnsOk(p) <=> ValidEntry(cache, call[p]))]_vars

\* C3: whenever a call returns Ok, both cache files of the source's bytes
\* exist at that moment and are complete JPEGs of widths 150 and 600.
C3_DualOutput ==
    [][\A p \in Procs :
          ReturnsOk(p) =>
              /\ ret'[p].small # << >> /\ ret'[p].medium # << >>
              /\ \A z \in Sizes :
                   /\ CompleteIn(cache', call[p].bytes, z)
                   /\ \A d \in cache'[FileName(call[p].ck, z)].data : d[2].w = Width(z)]_vars

\* the path the code is to return for these bytes and this size
PathFor(bytes, suffix) == <<CacheDirName, Sha256Hex(bytes), suffix>>

\* C4: every Ok result is cache_dir/{checksum}_small.jpg and
\* cache_dir/{checksum}_medium.jpg for the checksum of the bytes read, and
\* two Ok results (of any two paths) are the same pair of paths if and only
\* if the bytes read were the same.
C4_PathsByContent ==
    \A p, q \in Procs :
        (Finished(p) /\ Finished(q) /\ ret[p].status = "ok" /\ ret[q].status = "ok") =>
            /\ ret[p].small = PathFor(ret[p].bytes, "_small.jpg")
            /\ ret[p].medium = PathFor(ret[p].bytes, "_medium.jpg")
            /\ (ret[p].bytes = ret[q].bytes) <=>
                   (<<ret[p].small, ret[p].medium>> = <<ret[q].small, ret[q].medium>>)

\* calls on two different paths holding the same bytes have both returned Ok,
\* and one of them decoded the source itself
C4_Witness ==
    \E p, q \in Procs :
        /\ Finished(p) /\ Finished(q) /\ ret[p].status = "ok" /\ ret[q].status = "ok"
        /\ ret[p].path # ret[q].path
        /\ ret[p].bytes = ret[q].bytes
        /\ ret[p].wrote

\* some caller takes a step of its call
CallStep == call' # call \/ ret' # ret \/ calls' # calls

\* the cache files a step may touch: those of the source that the caller who
\* takes the step is processing
OwnFiles ==
    {<<Sha256Hex(src[call[p].path].bytes), suffix>> :
        p \in {q \in Procs : Busy(q) /\ call'[q] # call[q]},
        suffix \in {"_small.jpg", "_medium.jpg"}}

FilesFrame ==
    \A n \in Names :
        /\ cache[n].exists => cache'[n].exists
        /\ cache'[n] # cache[n] => (CallStep /\ n \in OwnFiles)

\* C5 as stated: no step of a call changes a source file, and all a step of
\* a call changes in the file system is one of the two cache files of the
\* source it is processing; no cache file is ever deleted.
C5_OnlyTheTwoFiles ==
    [][/\ CallStep => (src' = src /\ cacheDir' = cacheDir)
       /\ FilesFrame]_vars

\* C5 amended: the same, except that a call also creates cache_dir when it
\* is absent.
C5_TwoFilesAndCacheDir ==
    [][/\ CallStep => (src' = src /\ (cacheDir => cacheDir'))
       /\ FilesFrame]_vars

\* a call has written its two files and returned while the complete files of
\* other bytes, written earlier, are still there
C5_Witness ==
    \E p \in Procs, b \in Bytes :
        /\ Finished(p) /\ ret[p].status = "ok" /\ ret[p].wrote
        /\ b # ret[p].bytes
        /\ \A z \in Sizes : CompleteIn(cache, b, z) /\ CompleteIn(cache, ret[p].bytes, z)

\* C6: a call on a path that does not exist, or is not a regular file,
\* returns the matching error in its first step, with no checksum computed,
\* and leaves the sources, cache_dir and the cache files as they were.
C6_InvalidPathRejected ==
    [][\A p \in Procs, path \in Paths \ FilePaths :
          Begin(p, path) =>
              /\ ~Busy(p)'
              /\ ret'[p].status = "err"
              /\ ret'[p].err = IF path = "none" THEN "Image file does not exist"
                                                ELSE "Path is not a file"
              /\ ret'[p].ck = ""
              /\ src' = src /\ cacheDir' = cacheDir /\ cache' = cache]_vars

\* two calls have been made, the second on the directory; it was refused
\* and there is no cache_dir and no cache file
C6_Witness ==
    /\ ~cacheDir
    /\ calls = 2
    /\ ret[1].path = "dir" /\ ret[1].status = "err"
    /\ \A n \in Names : ~cache[n].exists

\* the extensions load_image refuses, in lower case
Refused == {<<"h", "e", "i", "c">>, <<"r", "a", "w">>, <<"c", "r", "2">>, <<"n", "e", "f">>}

Unsupported(path) == ToLower(src[path].ext) \in Refused

\* a source a call can make thumbnails of: supported by name, decodable bytes
Good(r) == ~Unsupported(r.path) /\ DecodeBytes(r.bytes).ok

\* C7 as stated: in a batch over a shared cache_dir with nothing else going
\* on (no I/O failure, no modification), a call succeeds if and only if its
\* source is neither corrupt nor unsupported, whatever came before it; so
\* N-k calls succeed in every order.
C7_ErrorIsolation ==
    \A p \in Procs :
        (Finished(p) /\ events = 0) => (ret[p].status = "ok" <=> Good(ret[p]))

\* C7 amended: a call succeeds if and only if its source is neither corrupt
\* nor unsupported or the cache already holds a valid entry for its bytes
\* (then it returns by the fast path); a call that fails on a corrupt or
\* unsupported source has written no cache file.
C7_IsolationUpToCache ==
    \A p \in Procs :
        Finished(p) =>
            /\ ret[p].status = "ok" <=> (Good(ret[p]) \/ ret[p].fast)
            /\ ret[p].status = "err" => ~ret[p].wrote

\* the second call of a batch failed on a corrupt source, after the call on
\* a good source had succeeded; the files of the good source are complete
C7_Witness ==
    \E p \in Procs, f \in FilePaths :
        /\ calls = 2 /\ events = 0
        /\ Finished(p) /\ ret[p].status = "err" /\ ~DecodeBytes(ret[p].bytes).ok
        /\ f # ret[p].path /\ done[f].ok
        /\ \A z \in Sizes : CompleteIn(cache, src[f].bytes, z)

\* C8: two calls on the same source that overlap in time, no cache file of
\* the source existing when either began and no I/O failure in either: once
\* both have returned, both returned Ok with the same two paths and each
\* cache file holds exactly the complete thumbnail a single call produces.
\* (Beginning reads the source only, so a call that begins while the other
\* is writing behaves as one that began before and checks the cache then.)
C8_RaceKeepsOutput ==
    \A p, q \in Procs :
        ( /\ p # q /\ ~Busy(p) /\ ~Busy(q)
          /\ Finished(p) /\ Finished(q)
          /\ ret[p].overlap /\ ret[q].overlap
          /\ ret[p].path = ret[q].path
          /\ ret[p].fresh /\ ret[q].fresh
          /\ Good(ret[p]) ) =>
            /\ ret[p].status = "ok" /\ ret[q].status = "ok"
            /\ ret[p].small = ret[q].small /\ ret[p].medium = ret[q].medium
            /\ \A z \in Sizes : CompleteIn(cache, ret[p].bytes, z)

\* two overlapping calls on the same uncached source have both written the
\* files and returned
C8_Witness ==
    \E p, q \in Procs :
        /\ p # q /\ ~Busy(p) /\ ~Busy(q)
        /\ Finished(p) /\ Finished(q)
        /\ ret[p].overlap /\ ret[q].overlap
        /\ ret[p].path = ret[q].path
        /\ ret[p].fresh /\ ret[q].fresh
        /\ ret[p].wrote /\ ret[q].wrote
        /\ ret[p].status = "ok" /\ ret[q].status = "ok"

\* C9: a call returns by the fast path only when both cache files are
\* complete thumbnails of the source's current bytes: never while one is
\* missing or partly written.
C9_NoFalseReuse ==
    [][\A p \in Procs :
          (ReturnsOk(p) /\ ret'[p].fast) =>
              \A z \in Sizes : CompleteIn(cache, src[call[p].path].bytes, z)]_vars

\* C10 as stated: a call on a source whose extension is heic, raw, cr2 or
\* nef in any case returns the unsupported-format error and never Ok,
\* whatever the cache holds (here: with no I/O failure in the behaviour).
C10_UnsupportedAlwaysErr ==
    \A p \in Procs :
        (Finished(p) /\ Unsupported(ret[p].path) /\ events = 0) =>
            /\ ret[p].status = "err"
            /\ ret[p].err \in {"HEIC format not yet supported", "RAW format not yet supported"}

\* C10 amended: such a call returns the unsupported-format error of its
\* extension, unless the cache holds a valid entry for the source's bytes,
\* in which case it returns that entry by the fast path; in both cases it
\* has written nothing.
C10_UnsupportedUnlessCached ==
    \A p \in Procs :
        (Finished(p) /\ Unsupported(ret[p].path)) =>
            /\ ~ret[p].wrote
            /\ \/ ret[p].status = "ok" /\ ret[p].fast
               \/ /\ ret[p].status = "err"
                  /\ ret[p].err = IF ToLower(src[ret[p].path].ext) = <<"h", "e", "i", "c">>
                                  THEN "HEIC format not yet supported"
                                  ELSE "RAW format not yet supported"

\* a call on a source with an upper-case refused extension and decodable
\* bytes found no cache entry and returned the error
C10_Witness ==
    \E p \in Procs :
        /\ Finished(p) /\ Unsupported(ret[p].path)
        /\ src[ret[p].path].ext # ToLower(src[ret[p].path].ext)
        /\ DecodeBytes(ret[p].bytes).ok
        /\ ret[p].status = "err"

(* ---------------- properties of the image pipeline --------------------- *)

\* the integers nearest to the quotient n / d (two of them on a half)
Nearest(n, d) ==
    {k \in {n \div d, n \div d + 1} : 2 * k * d - 2 * n \in (0 - d)..d}

Dist(a, b) == IF a >= b THEN a - b ELSE b - a

\* the thumbnails written so far, each with its target width
Written ==
    (IF pipe.pc \in {"small", "done"} THEN {<<150, pipe.small>>} ELSE {})
        \cup (IF pipe.pc = "done" THEN {<<600, pipe.medium>>} ELSE {})

\* C11: for a decoded image whose oriented size is orig_W x orig_H, each
\* thumbnail written for the target width W in {150, 600} is exactly W wide
\* and its height is within one pixel of W * orig_H / orig_W rounded to the
\* nearest integer; a 2000 x 1000 image gives 150 x 75 and 600 x 300.
C11_AspectRatio ==
    /\ \A t \in Written :
          /\ t[2].w = t[1]
          /\ \A r \in Nearest(t[1] * pipe.img.h, pipe.img.w) : Dist(t[2].h, r) <= 1
    /\ (pipe.pc = "done" /\ pipe.img.w = 2000 /\ pipe.img.h = 1000) =>
          /\ pipe.small.w = 150 /\ pipe.small.h = 75
          /\ pipe.medium.w = 600 /\ pipe.medium.h = 300

\* both thumbnails of an image that is 2000 x 1000 once turned upright by
\* its orientation tag have been written
C11_Witness ==
    /\ pipe.pc = "done"
    /\ pipe.raw.w = 1000 /\ pipe.raw.h = 2000
    /\ pipe.img.w = 2000 /\ pipe.img.h = 1000
    /\ pipe.small.h = 75 /\ pipe.medium.h = 300

\* C12: the orientation step swaps width and height exactly for the
\* orientation values 5 to 8, keeps them for 1 to 4, hands the image on
\* unmodified when the tag is absent, unreadable or out of range, and never
\* makes the call fail.
C12_Orientation ==
    /\ pipe.pc # "failed"
    /\ pipe.pc \in {"oriented", "small", "done"} =>
          LET short == pipe.tag.read = "short"
              v == pipe.tag.v
          IN  /\ (short /\ v \in 5..8) =>
                    pipe.img.w = pipe.raw.h /\ pipe.img.h = pipe.raw.w
              /\ (short /\ v \in 1..4) =>
                    pipe.img.w = pipe.raw.w /\ pipe.img.h = pipe.raw.h
              /\ (~short \/ v \notin 1..8) => pipe.img = pipe.raw

\* an image that is not square has gone through the orientation step with
\* the tag 5 (turned and mirrored)
C12_Witness ==
    /\ pipe.pc = "oriented"
    /\ pipe.tag.read = "short" /\ pipe.tag.v = 5
    /\ pipe.raw.w = 2000 /\ pipe.raw.h = 1000
    /\ pipe.img.w = 1000 /\ pipe.img.h = 2000

(* ---------------- properties of the video thumbnails ------------------- *)

\* the call in progress, or the last one, has chosen its offset
OffsetChosen ==
    \/ video.pc \in {"extract", "write"}
    \/ video.pc = "idle" /\ video.status # "none" /\ ~video.fast

\* C13: the frame is taken at the 5-second mark if and only if the video is
\* longer than 5 seconds, at t = 0 for every duration up to and including
\* 5.0 s, and never beyond the end of the stream.
C13_OffsetSelection ==
    OffsetChosen =>
        /\ video.offset = 50 <=> video.duration > 50
        /\ video.duration <= 50 => video.offset = 0
        /\ video.offset <= video.duration

\* the frame of a video of exactly 5.0 s has been extracted at t = 0
C13_Witness ==
    /\ video.pc = "write"
    /\ video.duration = 50
    /\ video.offset = 0
    /\ video.runs = 2

\* the cache entry the call found: both files exist and neither is older
\* than the video
FoundValid ==
    /\ video.files0.small.exists /\ video.files0.medium.exists
    /\ video.files0.small.mtime >= video.mtime
    /\ video.files0.medium.mtime >= video.mtime

\* C14: a call on an unmodified video whose cache entry is valid returns the
\* cached paths at once: no subprocess is started, neither cache file is
\* rewritten (their modification times stay), and no sample is recorded in
\* the codec performance totals.
C14_VideoCacheHit ==
    (video.pc = "idle" /\ video.status # "none" /\ FoundValid) =>
        /\ video.status = "ok" /\ video.fast
        /\ video.runs = video.runs0
        /\ video.files = video.files0
        /\ stats = video.stats0

\* a second call has returned from the cache, later than the first call
\* wrote the files and recorded its sample
C14_Witness ==
    /\ video.pc = "idle" /\ video.calls = 2
    /\ video.status = "ok" /\ video.fast
    /\ video.clock > video.files.small.mtime
    /\ video.runs = 2
    /\ stats[video.codec].sample_count = 1

(* ------------- properties of the codec performance tracker ------------- *)

\* the snapshot entry e is exactly what the record calls give
ExactEntry(e, recs) ==
    /\ e.sample_count = recs.count
    /\ e.avg_time_ms[2] # 0
    /\ e.avg_time_ms[1] * recs.count = recs.ms * e.avg_time_ms[2]
    /\ e.success_rate[2] # 0
    /\ e.success_rate[1] * recs.count = (recs.count - recs.failed) * e.success_rate[2]
    /\ e.success_rate[1] >= 0 /\ e.success_rate[1] <= e.success_rate[2]

\* C15: at any time, for every codec (whose totals are not in the middle
\* of an update, where no snapshot can read them), the snapshot lists the
\* codec if and only if at least one record call for it was completed since
\* the last reset; its sample_count is the number of those calls, its
\* failure count the number of them with success = false, avg time the sum
\* of their elapsed_ms divided by sample_count, and success_rate =
\* (sample_count - failure_count) / sample_count lies in [0, 1].  The same
\* holds of every entry a snapshot has read.
C15_TotalsExact ==
    /\ \A c \in Codecs :
          track.lock[c] = 0 =>
              LET recs == track.log[c]
              IN  /\ Metrics(c, stats[c]) \in SnapshotOf(stats) <=> recs.count >= 1
                  /\ stats[c].present =>
                        /\ stats[c].failure_count = recs.failed
                        /\ ExactEntry(Metrics(c, stats[c]), recs)
    /\ track.seen.codec # "none" =>
          /\ track.seen.present <=> track.seen.calls.count >= 1
          /\ track.seen.present => ExactEntry(track.seen.entry, track.seen.calls)

\* a snapshot has read the entry of a codec with three completed record
\* calls, one of them a failure
C15_Witness ==
    /\ track.seen.present
    /\ track.seen.entry.sample_count = 3
    /\ track.seen.entry.success_rate = <<2, 3>>
    /\ track.seen.entry.avg_time_ms = <<80, 3>>

\* this step is a reset
IsReset == track'.resets = track.resets + 1

\* C16: a snapshot taken right after reset is empty, and reset is the only
\* operation that removes a codec's entry or decreases its sample_count,
\* cumulative time or failure count.
C16_OnlyResetClears ==
    [][/\ IsReset => SnapshotOf(stats') = {}
       /\ (\E c \in Codecs :
              \/ stats[c].present /\ ~stats'[c].present
              \/ stats'[c].sample_count < stats[c].sample_count
              \/ stats'[c].cumulative_time_ms < stats[c].cumulative_time_ms
              \/ stats'[c].failure_count < stats[c].failure_count) => IsReset]_vars

\* the totals of two recorded calls, one a failure, have been cleared by
\* reset
C16_Witness ==
    /\ track.resets = 1
    /\ track.records = 2
    /\ \A t \in Threads : track.thr[t].pc = "idle"
    /\ track.log = [c \in Codecs |-> NoCalls]
    /\ SnapshotOf(stats) = {}
    /\ track.seen.present /\ track.seen.entry.success_rate = <<1, 2>>

\* C17: with record calls issued by several threads at once and no reset,
\* no update is lost: when all calls are complete each codec's
\* sample_count, cumulative time and failure count are the sums over all
\* record calls for it; and no snapshot observes an entry whose failure
\* count exceeds its sample_count.
C17_NoLostUpdate ==
    /\ (track.resets = 0 /\ \A t \in Threads : track.thr[t].pc = "idle") =>
          \A c \in Codecs :
              LET recs == track.log[c]
              IN  /\ stats[c].sample_count = recs.count
                  /\ stats[c].cumulative_time_ms = recs.ms
                  /\ stats[c].failure_count = recs.failed
    /\ track.seen.codec # "none" =>
          track.seen.entry.success_rate[1] >= 0

\* three record calls for one codec, issued while another thread was
\* recording for it, are all complete
C17_Witness ==
    /\ track.raced
    /\ track.resets = 0
    /\ \A t \in Threads : track.thr[t].pc = "idle"
    /\ track.log["h264"].count = 3
    /\ stats["h264"].sample_count = 3


(* ----------------------------- sync properties -------------------------- *)

LastWas(i, o) == sync.last[i].outcome = o

SyncedRow(i) == sync.db[i].sync_status = "synced" /\ sync.db[i].synced_at # "null"

\* C19 as stated: after sync_to_drive returns, every image uploaded or
\* skipped has sync_status "synced" with synced_at set, every image whose
\* upload failed after all retries has sync_status "failed", and skipped
\* counts only the existence checks that answered true.
C19_StatusAlwaysTracked ==
    sync.pc = "done" =>
      /\ \A i \in Stored :
            /\ (LastWas(i, "uploaded") \/ LastWas(i, "skipped")) => SyncedRow(i)
            /\ LastWas(i, "failed") => sync.db[i].sync_status = "failed"
      /\ sync.skipped = sync.positives

\* C19: after sync_to_drive returns, for every requested image that has a
\* row, the status update made when it was last processed decides: if it
\* went through, the row is "synced" with synced_at set when the image was
\* uploaded or skipped and "failed" when its upload failed after all
\* retries; if it failed, the error is dropped and the row is as it was
\* before. Skipped counts exactly the existence checks that answered true,
\* and every requested id is counted once as uploaded, skipped or failed.
C19_StatusTrackedWhenUpdated ==
    sync.pc = "done" =>
      /\ \A i \in Stored :
            /\ ((LastWas(i, "uploaded") \/ LastWas(i, "skipped")) /\ sync.last[i].updated)
                  => SyncedRow(i)
            /\ (LastWas(i, "failed") /\ sync.last[i].updated)
                  => sync.db[i].sync_status = "failed"
            /\ (~LastWas(i, "none") /\ ~sync.last[i].updated)
                  => sync.db[i] = sync.last[i].before
            /\ LastWas(i, "none") => sync.db[i] = NewRow
      /\ sync.skipped = sync.positives
      /\ sync.uploaded + sync.skipped + Len(sync.failed) = Len(sync.ids)

\* a call that has returned with one image synced and the other failed,
\* both rows updated
C19_Witness ==
    /\ sync.pc = "done"
    /\ \E i, j \in Stored :
          /\ (LastWas(i, "uploaded") \/ LastWas(i, "skipped")) /\ sync.last[i].updated
          /\ LastWas(j, "failed") /\ sync.last[j].updated


(* --------------------------- settings properties ------------------------ *)

\* C20: when the last save_settings(s) call has succeeded, get_settings on
\* the same manager returns exactly s, and so does get_settings on a
\* manager created afterwards from the same config path.
C20_PersistenceRoundTrip ==
    settings.last = "ok" =>
      \A m \in {1, 2} : settings.got[m] # NoSettings => settings.got[m] = settings.arg

\* settings with characters that are escaped in the file, saved and read
\* back on both managers
C20_Witness ==
    /\ settings.last = "ok"
    /\ settings.arg.value.thumbnail_cache_path = <<"\\", "n", "\"">>
    /\ settings.arg.value.sync_config.sync_interval = 120
    /\ \A m \in {1, 2} : settings.got[m] = settings.arg


\* settings that are valid: a known model and upload quality, an interval
\* of at least 1, a path that is not blank, and two lists, neither empty,
\* of formats made of lowercase letters and digits
Acceptable(s) ==
    LET plain == {"a", "b", "c", "d", "e", "f", "g", "h", "i", "j", "k", "l", "m",
                  "n", "o", "p", "q", "r", "s", "t", "u", "v", "w", "x", "y", "z",
                  "0", "1", "2", "3", "4", "5", "6", "7", "8", "9"}
        GoodList(l) ==
            /\ l # << >>
            /\ \A i \in 1..Len(l) : l[i] # << >> /\ \A j \in 1..Len(l[i]) : l[i][j] \in plain
    IN  /\ s.ai_model \in {Strings.clip, Strings.mobilenet}
        /\ s.sync_config.upload_quality \in {Strings.original, Strings.high, Strings.medium}
        /\ s.sync_config.sync_interval >= 1
        /\ \E i \in 1..Len(s.thumbnail_cache_path) : s.thumbnail_cache_path[i] \notin {" ", "\n"}
        /\ GoodList(s.format_config.image_formats)
        /\ GoodList(s.format_config.video_formats)

\* C21: a save_settings call that returns the validation error leaves the
\* settings in memory and the config file exactly as they were, and settings
\* that are not valid never get past validation: every call that went on to
\* replace the settings in memory was given valid settings.
C21_InvalidSettingsRefused ==
    [][settings'.saves # settings.saves =>
         IF settings'.last = "invalid"
         THEN /\ settings'.memory[1] = settings.memory[1]
              /\ settings'.file = settings.file
         ELSE Acceptable(settings'.arg.value)]_vars

\* settings were saved, then a call with settings that are not valid was
\* refused
C21_Witness ==
    /\ settings.last = "invalid"
    /\ settings.file.kind = "whole"
    /\ settings.memory[1] = settings.arg


(* -------------------------- migrations properties ----------------------- *)

\* C22: schema_version never holds two rows for a version; a run of
\* run_migrations that returns Ok, whatever the version it started from and
\* however many runs were made before, leaves the database at version 2
\* with the two rows 1 and 2; a run on a database already at version 2 adds
\* no row, and when it returns Ok it has applied no migration.
C22_MigrationsIdempotent ==
    LET rows == migrations.rows
        AtCurrent(r) == \E i \in 1..Len(r) : r[i] = CURRENT_VERSION
    IN  /\ \A i, j \in 1..Len(rows) : rows[i] = rows[j] => i = j
        /\ (migrations.pc = "idle" /\ migrations.result = "ok") =>
              /\ Len(rows) = 2
              /\ {rows[i] : i \in 1..Len(rows)} = {1, 2}
              /\ {"v1", "media_type", "duration_seconds", "video_codec",
                   "idx_images_media_type"} \subseteq migrations.schema
              /\ AtCurrent(migrations.start) => migrations.applied = {}
        /\ (migrations.runs > 0 /\ AtCurrent(migrations.start)) => rows = migrations.start

\* a second run, on the database the first run has migrated from nothing
C22_Witness ==
    /\ migrations.pc = "idle"
    /\ migrations.result = "ok"
    /\ migrations.runs = 2
    /\ migrations.start = <<1, 2>>
    /\ migrations.applied = {}


(* ----------------------------- auth properties -------------------------- *)

\* C23: a handle_callback call gets to the token exchange only when
\* start_auth_flow had run before it looked at the stored state and the
\* state supplied is the CSRF token of the most recent of those runs; a
\* call made before any start_auth_flow returns "No CSRF token found", a
\* call with another state returns "CSRF token mismatch", and such a call
\* makes no exchange and stores nothing in the keychain.
C23_CsrfChecked ==
    LET passed == auth.flowsSeen >= 1 /\ auth.state = auth.flowsSeen
    IN  /\ (auth.pc # "idle" \/ auth.exchanged \/ auth.stored # {}) => passed
        /\ (auth.callbacks > 0 /\ auth.pc = "idle" /\ ~passed) =>
              /\ auth.ret = IF auth.flowsSeen = 0 THEN "No CSRF token found"
                            ELSE "CSRF token mismatch"
              /\ ~auth.exchanged
              /\ auth.stored = {}
        /\ auth.ret \in {"No CSRF token found", "CSRF token mismatch"} => ~passed
        /\ auth.keychain # {} => auth.flows >= 1

\* after a call that stored tokens, a call with the token of an earlier
\* start_auth_flow is refused with the keychain left as it was
C23_Witness ==
    /\ auth.flows = 2
    /\ auth.callbacks = 2
    /\ auth.state = 1
    /\ auth.ret = "CSRF token mismatch"
    /\ auth.keychain = {"access", "refresh", "expires"}


(* ------------------------------ LRU properties -------------------------- *)

\* the keys that have an entry in a map
Held(map) == {k \in DOMAIN map : map[k] # 0}

\* the last call was a put of a new key into a cache that held as many
\* entries as its capacity
PutIntoFull ==
    /\ lru.op = "put"
    /\ lru.before.cache[lru.key] = 0
    /\ Cardinality(Held(lru.before.cache)) = lru.capacity

\* of the entries held before the put exactly one is gone, one whose most
\* recent successful get or put is the oldest; the others have their
\* values, and the new key has the value given
EvictedOldest ==
    \E victim \in Held(lru.before.cache) :
      /\ \A k \in Held(lru.before.cache) : lru.before.used[victim] <= lru.before.used[k]
      /\ Held(lru.cache) = (Held(lru.before.cache) \ {victim}) \cup {lru.key}
      /\ \A k \in Held(lru.before.cache) \ {victim} : lru.cache[k] = lru.before.cache[k]
      /\ lru.cache[lru.key] = lru.value

\* C24: when put inserts a new key into an LRUCache that already holds
\* capacity entries, exactly one entry is evicted, the least recently used
\* one, and every other entry keeps its value.
C24_LruEviction == PutIntoFull => EvictedOldest

\* the same for caches of capacity 1 and more, with the number of entries
\* never above the capacity
LruEvictionWithCapacity ==
    lru.capacity >= 1 =>
      /\ PutIntoFull => EvictedOldest
      /\ Cardinality(Held(lru.cache)) <= lru.capacity

\* a put into a full cache of capacity 2 after a get has changed which
\* entry is the oldest
LruEvictionReached ==
    /\ lru.capacity = 2
    /\ PutIntoFull
    /\ lru.before.used["a"] > lru.before.used["b"]
    /\ lru.before.cache["a"] # 0 /\ lru.before.cache["b"] # 0
    /\ lru.cache["b"] = 0


(* ------------------- the steps of one generate_thumbnails call ---------- *)

\* the step caller p takes is one the order allows: from the start to the
\* cache check (the path was a file, its mtime and checksum were read),
\* from the check to the decode, from a successful decode to the small
\* file, chunk by chunk through a file, from the last chunk of the small
\* file to the medium file; Ok is returned by the check or after the last
\* chunk of the medium file; a call may end with an error anywhere
InOrder(p) ==
    LET c == call[p]
        d == call'[p]
    IN  CASE c.pc = "idle" ->
               /\ d.pc \in {"idle", "check"}
               /\ (d.pc = "idle" /\ ret'[p] # ret[p] /\ Kind(ret'[p].path) # "file") =>
                     ret'[p].err \in {"Image file does not exist", "Path is not a file"}
               /\ d.pc = "check" => Kind(d.path) = "file" /\ d.ck = Sha256Hex(src[d.path].bytes)
          [] c.pc = "check" ->
               /\ d.pc \in {"check", "decode", "idle"}
               /\ d.pc = "idle" => (ret'[p].status = "ok" => ret'[p].fast)
          [] c.pc = "decode" ->
               /\ d.pc \in {"decode", "write", "idle"}
               /\ d.pc = "write" => d.size = "small" /\ d.chunk = 0 /\ d.img.ok
               /\ d.pc = "idle" => ret'[p].status = "err"
          [] c.pc = "write" ->
               /\ d.pc \in {"write", "idle"}
               /\ (d.pc = "write" /\ d.size = c.size) => d.chunk \in {c.chunk, c.chunk + 1}
               /\ (d.pc = "write" /\ d.size # c.size) =>
                     c.size = "small" /\ c.chunk = LastChunk /\ d.size = "medium" /\ d.chunk = 0
               /\ (d.pc = "idle" /\ ret'[p].status = "ok") =>
                     c.size = "medium" /\ c.chunk = LastChunk /\ ~ret'[p].fast

\* C25: every step of a generate_thumbnails call follows the order path
\* validation, mtime and checksum, cache check, decode with orientation,
\* small file, medium file; a cache file changes only in a step of a call
\* that has decoded its source and is writing that file, so none is written
\* before the decode and the medium file never before the small one.
C25_StepOrder ==
    [][/\ \A p \in Procs : InOrder(p)
       /\ \A n \in Names :
             cache'[n] # cache[n] =>
               \E p \in Procs :
                 /\ call[p].pc = "write"
                 /\ call[p].img.ok
                 /\ n = FileName(call[p].ck, call[p].size)]_vars

\* a call alone has gone through every step and returned the two files it
\* wrote, the medium one after the small one
C25_Witness ==
    /\ calls = 1 /\ events = 0
    /\ ret[1].status = "ok" /\ ret[1].wrote /\ ~ret[1].fast
    /\ \A z \in Sizes : CompleteIn(cache, ret[1].bytes, z)
    /\ cache[FileName(ret[1].ck, "small")].mtime <= cache[FileName(ret[1].ck, "medium")].mtime

\* the small file of the call's bytes is complete and the medium file is
\* missing or holds less than the whole thumbnail: what a call that failed
\* while writing the medium file leaves behind
LeftPartial(files, c) ==
    /\ CompleteIn(files, c.bytes, "small")
    /\ ~CompleteIn(files, c.bytes, "medium")

\* C26: a call that fails while writing the medium file returns the write
\* error and leaves the small file on disk as it was; the next call on the
\* same unchanged source, which meets that complete small file and the
\* unfinished medium file at its cache check, does not return by the fast
\* path but goes on to regenerate, and returns Ok only with both files
\* complete.
C26_PartialWriteRecovery ==
    [][\A p \in Procs :
          /\ (/\ call[p].pc = "write" /\ call[p].size = "medium"
              /\ call'[p].pc = "idle" /\ ret'[p].status = "err") =>
                 /\ ret'[p].err = "Failed to save thumbnail"
                 /\ CompleteIn(cache', call[p].bytes, "small")
                 /\ cache'[SmallName(call[p])] = cache[SmallName(call[p])]
          /\ (/\ call[p].pc = "check" /\ call'[p].pc # "check"
              /\ LeftPartial(cache, call[p])
              /\ src[call[p].path].bytes = call[p].bytes
              /\ ret'[p].status # "err") =>
                 /\ call'[p].pc = "decode"
                 /\ ~call'[p].fast
          /\ (ReturnsOk(p) /\ call[p].wrote) =>
                 \A z \in Sizes : CompleteIn(cache', call[p].bytes, z)]_vars

\* the failing step alone: the write error is returned and the small file stays
C26_FailureLeavesSmall ==
    [][\A p \in Procs :
          (/\ call[p].pc = "write" /\ call[p].size = "medium"
           /\ call'[p].pc = "idle" /\ ret'[p].status = "err") =>
              /\ ret'[p].err = "Failed to save thumbnail"
              /\ CompleteIn(cache', call[p].bytes, "small")
              /\ cache'[SmallName(call[p])] = cache[SmallName(call[p])]]_vars

\* with one caller, an unfinished medium file beside a complete small file is
\* met at the cache check only after an earlier call failed in its write
C26_PartialOnlyByFailure ==
    \A p \in Procs :
        (call[p].pc = "check" /\ LeftPartial(cache, call[p])) => events >= 1

\* the step in which a call's decode of its source fails: the bytes on disk
\* are corrupt, empty or not an image (the extension is one the decoder takes)
DecodeFails(p) ==
    /\ call[p].pc = "decode" /\ call'[p].pc = "idle"
    /\ ret'[p].err = "Failed to decode image"

\* C27: when the decode of a call's source fails, the call returns an error,
\* has created or written no file up to then, and the step leaves every cache
\* file, those of the source's checksum included, as it was; no cache file
\* of that checksum existing when the call began, none exists when it
\* returns, and the entry is not one the cache check would accept.
C27_FailedDecodeWritesNothing ==
    [][\A p \in Procs :
          /\ (call[p].pc = "decode" /\ ~DecodeBytes(src[call[p].path].bytes).ok) =>
                (call'[p].pc \in {"decode", "idle"} /\ (call'[p].pc = "idle" => ret'[p].status = "err"))
          /\ DecodeFails(p) =>
                /\ ret'[p].status = "err"
                /\ ~ret'[p].wrote
                /\ cache' = cache
                /\ ret'[p].fresh =>
                      /\ \A z \in Sizes : ~cache'[FileName(call[p].ck, z)].exists
                      /\ ~ValidEntry(cache', call[p])]_vars

\* a call on a corrupt source with an empty cache has failed in its decode,
\* and no file of its checksum exists
C27_Witness ==
    /\ calls = 1 /\ events = 0
    /\ ret[1].status = "err" /\ ret[1].err = "Failed to decode image"
    /\ ret[1].fresh /\ ~DecodeBytes(ret[1].bytes).ok
    /\ \A z \in Sizes : ~cache[FileName(ret[1].ck, z)].exists

\* the number of list positions the call has counted in its result so far
PositionsCounted(s) == s.uploaded + s.skipped + Len(s.failed)

\* C28: in a call of sync_to_drive that got its access token, whatever the
\* ids (unknown and repeated ones included) and whatever the database, the
\* existence check and the uploads answer: the list is walked one position
\* at a time from the first, a position is left only when it has been
\* counted once as uploaded, skipped or failed (a failed entry carrying the
\* id at that position), counting a failure moves on to the next position
\* like any other outcome, and the call returns only after the last
\* position, with uploaded + skipped + number of failed entries equal to
\* the number of ids.
C28_EveryPositionOnce ==
    [][/\ sync'.ids = sync.ids
       /\ PositionsCounted(sync') \in {PositionsCounted(sync), PositionsCounted(sync) + 1}
       /\ sync'.uploaded >= sync.uploaded /\ sync'.skipped >= sync.skipped
       /\ Len(sync'.failed) >= Len(sync.failed)
       /\ PositionsCounted(sync') = PositionsCounted(sync) + 1 =>
             /\ sync.index \in 1..Len(sync.ids)
             /\ PositionsCounted(sync') = sync.index
             /\ Len(sync'.failed) > Len(sync.failed) =>
                   sync'.failed = Append(sync.failed, sync.ids[sync.index])
             /\ IF sync.index < Len(sync.ids)
                THEN sync'.pc = "lookup" /\ sync'.index = sync.index + 1
                ELSE sync'.pc = "done" /\ sync'.index = sync.index
       /\ sync'.index # sync.index =>
             /\ sync'.index = sync.index + 1
             /\ PositionsCounted(sync') = sync.index
       /\ sync'.pc = "done" =>
             /\ sync'.index = Len(sync.ids)
             /\ PositionsCounted(sync') = Len(sync.ids)]_vars

\* a call over two ids has returned: the first id failed, the second was
\* uploaded or skipped after it
C28_Witness ==
    /\ sync.pc = "done"
    /\ Len(sync.ids) = 2
    /\ sync.failed = <<sync.ids[1]>>
    /\ sync.uploaded + sync.skipped = 1

====
